---- MODULE Spec2Model ----
(***************************************************************************)
(* A model of the reflexsoar agent: the supervisor (agent.py), the         *)
(* management connection layer (core/management.py), the agent config      *)
(* (AgentConfig in agent.py) and the event pipeline                        *)
(* (core/event/manager.py).                                                *)
(*                                                                         *)
(* Python values are modelled as follows.  A dict is a function whose      *)
(* DOMAIN is its key set (<<>> is the empty dict).  None is the string     *)
(* "None" where the slot otherwise holds a string.  An HTTP response is    *)
(* its status code, 0 standing for "call_api returned None" (the console   *)
(* could not be reached).  A list that the code only tests for membership  *)
(* and emptiness (config.roles) is a set.                                  *)
(***************************************************************************)
EXTENDS Integers, Sequences, FiniteSets, TLC

\* ---------------------------------------------------------------- bounds

\* Policy revisions issued by the console are drawn from 1..MaxRevision.
MaxRevision == 2

\* EventManager._max_spooled_events, 10000 in the source, scaled down.
max_spooled_events == 2

\* The events created in one behaviour.
MaxEvents == 5

\* The most events handed to one prepare_events call.
MaxBatch == 3

\* Classes created below BaseRole, and names a class body defines.
MaxClasses == 2

MaxMethods == 2

\* BaseRole.max_loop_count is drawn from 0..MaxLoopCount.
MaxLoopCount == 2

\* The back_pressure counter is followed up to this value.
MaxBackPressure == 3

\* EventSpooler._bulk_size, 100 in the source, scaled down.
bulk_size == 2

\* A minute of the detection clock is this many ticks (the source's clock
\* counts microseconds).
TicksPerMinute == 2

\* The detection clock runs from 0 to MaxNow ticks.
MaxNow == 8

\* Detection.interval is drawn from 1..MaxInterval minutes.
MaxInterval == 2

\* Detection.lookbehind starts in 0..MaxLookbehind minutes and _should_run
\* is followed while it is at most that.
MaxLookbehind == 1

\* Detection.mute_period is drawn from 0..MaxMutePeriod minutes.
MaxMutePeriod == 2

\* catchup_period is drawn from 0..MaxCatchup minutes.
MaxCatchup == 2

\* The create_secret calls followed.
MaxSecrets == 2

\* Severities are drawn up to MaxSeverity, one past the range 1..4.
MaxSeverity == 5

\* tlp values are drawn up to MaxTlp, one past the range 0..4.
MaxTlp == 5

\* The set_value calls followed on one AgentConfig.
MaxSetCalls == 2

\* An input that runs returns 0..MaxPerRun events.
MaxPerRun == 1

\* The ticks of Poller.main followed; the tick number is the time of a run.
MaxTicks == 3

\* The values a policy gives to an option of a role.
MaxOption == 3

\* ------------------------------------------------------------- variables

VARIABLES
    pc,                  \* where the supervisor process is
    exit_code,           \* the argument of sys.exit, -1 while running
    config,              \* Agent.config (an AgentConfig)
    persisted,           \* persistent-config.json: <<>> or <<config>>
    connections,         \* core.management.connections (module global)
    managed_connections, \* Agent._managed_connections (shared with roles)
    running_roles,       \* Agent.running_roles, in insertion order
    workers,             \* names of the roles whose worker process is alive
    managed_configs,     \* Agent._managed_configs
    pipeline,            \* "none" or "started" (start_event_pipeline)
    wire,                \* the HTTP requests the last operation sent
    paired,              \* how this process's cli pair ended, and its token
    last,                \* the last supervisor operation and its outcome
    policy_before,       \* from_policy: the AgentConfig before the call
    policy_config,       \* from_policy: the AgentConfig (after the call)
    policy_in,           \* from_policy: the policy argument
    policy_applied,      \* from_policy has been called
    event_queue,         \* EventManager.event_queue, oldest first
    producer_pc,         \* per producer: where it is in prepare_events
    held,                \* per producer: the *events not yet put
    submitted,           \* per producer: events handed to prepare_events
    back_pressure,       \* per producer: EventManager.back_pressure
    next_event,          \* the events created so far
    spooler,             \* the EventSpooler process
    batch,               \* EventSpooler._process_events: its list `events`
    lost,                \* events a spooler held when its process ended
    passed,              \* the events passed to bulk_events, in call order
    stalled,             \* producer -> its current or last call has slept
    enqueued             \* producer -> the events it has put, in put order

agentVars == <<pc, exit_code, config, persisted, connections,
               managed_connections, running_roles, workers,
               managed_configs, pipeline, wire, paired, last>>

policyVars == <<policy_before, policy_config, policy_in, policy_applied>>

eventVars == <<event_queue, producer_pc, held, submitted, back_pressure,
               next_event, spooler, batch, lost, passed, stalled, enqueued>>

VARIABLES
    stopper              \* where the caller of EventSpooler.stop() is

stopVars == <<stopper>>

VARIABLES
    initialized,         \* EventManager._initialized
    management_conn,     \* EventManager.management_conn
    manager_spoolers,    \* spoolers the manager has started on its queue
    manager_queue,       \* the items on EventManager.event_queue, oldest first
    manager_last         \* the last call on the manager and how it ended

managerVars == <<initialized, management_conn, manager_spoolers,
                 manager_queue, manager_last>>

VARIABLES
    role_pc,             \* role -> where its process is in run()
    should_stop,         \* role -> BaseRole._should_stop is set
    loop_executions,     \* role -> the local loop_executions of run()
    mains,               \* role -> calls of main() made by run()
    mains_after_stop,    \* role -> calls of main() begun after stop()
    stop_pc,             \* role -> where the caller of stop() is
    disable_run_loop,    \* role -> BaseRole.disable_run_loop
    max_loop_count       \* role -> BaseRole.max_loop_count

roleVars == <<role_pc, should_stop, loop_executions, mains, mains_after_stop,
              stop_pc, disable_run_loop, max_loop_count>>

VARIABLES
    classes,             \* class name -> its direct base and its own dict
    guard_last           \* the last class statement and how it ended

guardVars == <<classes, guard_last>>

VARIABLES
    registry_last,       \* the last call on the registry and how it ended
    removed              \* the names a remove call has taken out

registryVars == <<registry_last, removed>>

\* The supervisor's state without core.management.connections.
agentRest == <<pc, exit_code, config, persisted, managed_connections,
               running_roles, workers, managed_configs, pipeline, wire,
               paired, last>>

VARIABLES
    role_dict,           \* role -> the dict object that is its self.connections
    dicts,               \* dict object -> its content, name -> connection
    share_last           \* the last share/unshare call and what it changed

shareVars == <<role_dict, dicts, share_last>>

VARIABLES
    now,                 \* datetime.utcnow(), in ticks
    last_run,            \* Detection.last_run, an ISO-8601 string or ""
    last_hit,            \* Detection.last_hit, an ISO-8601 string or ""
    interval,            \* Detection.interval, minutes
    lookbehind,          \* Detection.lookbehind, minutes
    mute_period,         \* Detection.mute_period, minutes
    detection_last       \* the last step on the rule and what a call returned

detectionVars == <<now, last_run, last_hit, interval, lookbehind, mute_period, detection_last>>

VARIABLES
    vault_file,          \* the vault file: the YAML entries written, in order
    vault_lock,          \* Vault.lock: the worker holding it, or NoWorker
    vault_secrets,       \* worker -> its copy of Vault.secrets
    vault_pc,            \* worker -> where it is in a Vault method
    vault_cur,           \* worker -> the uuid its call is about
    drawn,               \* how many uuids uuid4() has returned
    ids,                 \* the create_secret calls that returned, in order
    rewritten,           \* whether a save() has rewritten the file
    popped,              \* the uuids a delete_secret has popped from a copy
    vault_last           \* the last Vault call that returned

vaultVars == <<vault_file, vault_lock, vault_secrets, vault_pc, vault_cur, drawn, ids, rewritten, popped, vault_last>>

VARIABLES
    event_args,          \* the arguments of an Event(...) call
    event,               \* the Event it built, or the exception raised
    records,             \* two raw records and the signature_fields
    signatures           \* the signatures of the Events built from them

eventBaseVars == <<event_args, event, records, signatures>>

VARIABLES
    cli_config,          \* the AgentConfig that set_value is called on
    set_last             \* the last set_value call and how it ended

setValueVars == <<cli_config, set_last>>

VARIABLES
    configured_inputs,   \* Poller.configured_inputs: uuid -> last_run of the input object
    poller_pc,           \* "running", or "raised" once main has raised in run()
    polled,              \* how many events the poller has handed to prepare_events
    poll_last            \* the last tick: the console's answer and how main ended

pollerVars == <<configured_inputs, poller_pc, polled, poll_last>>

VARIABLES
    agent_role_configs,  \* Agent.config.role_configs when the role is started
    shared_configs,      \* Agent._managed_configs: config name -> shared dict
    role_config,         \* the role's self.config: the shared dict or a dict of its own
    config_last          \* the last step: the options pushed, the config a tick read

roleConfigVars == <<agent_role_configs, shared_configs, role_config, config_last>>

vars == <<agentVars, policyVars, eventVars, stopVars, managerVars, roleVars, guardVars, registryVars, shareVars, detectionVars, vaultVars, eventBaseVars, setValueVars, pollerVars, roleConfigVars>>

\* What the actions of one part leave alone.
notAgentVars == <<policyVars, eventVars, stopVars, managerVars, roleVars, guardVars, registryVars, shareVars, detectionVars, vaultVars, eventBaseVars, setValueVars, pollerVars, roleConfigVars>>

notPolicyVars == <<agentVars, eventVars, stopVars, managerVars, roleVars, guardVars, registryVars, shareVars, detectionVars, vaultVars, eventBaseVars, setValueVars, pollerVars, roleConfigVars>>

notEventVars == <<agentVars, policyVars, stopVars, managerVars, roleVars, guardVars, registryVars, shareVars, detectionVars, vaultVars, eventBaseVars, setValueVars, pollerVars, roleConfigVars>>

notStopVars == <<agentVars, policyVars, managerVars, roleVars, guardVars, registryVars, shareVars, detectionVars, vaultVars, eventBaseVars, setValueVars, pollerVars, roleConfigVars>>

notManagerVars == <<agentVars, policyVars, eventVars, stopVars, roleVars, guardVars, registryVars, shareVars, detectionVars, vaultVars, eventBaseVars, setValueVars, pollerVars, roleConfigVars>>

notRoleVars == <<agentVars, policyVars, eventVars, stopVars, managerVars, guardVars, registryVars, shareVars, detectionVars, vaultVars, eventBaseVars, setValueVars, pollerVars, roleConfigVars>>

notGuardVars == <<agentVars, policyVars, eventVars, stopVars, managerVars, roleVars, registryVars, shareVars, detectionVars, vaultVars, eventBaseVars, setValueVars, pollerVars, roleConfigVars>>

notRegistryVars == <<agentRest, policyVars, eventVars, stopVars, managerVars, roleVars, guardVars, shareVars, detectionVars, vaultVars, eventBaseVars, setValueVars, pollerVars, roleConfigVars>>

notShareVars == <<agentVars, policyVars, eventVars, stopVars, managerVars, roleVars, guardVars, registryVars, detectionVars, vaultVars, eventBaseVars, setValueVars, pollerVars, roleConfigVars>>

notDetectionVars == <<agentVars, policyVars, eventVars, stopVars, managerVars, roleVars, guardVars, registryVars, shareVars, vaultVars, eventBaseVars, setValueVars, pollerVars, roleConfigVars>>

notVaultVars == <<agentVars, policyVars, eventVars, stopVars, managerVars, roleVars, guardVars, registryVars, shareVars, detectionVars, eventBaseVars, setValueVars, pollerVars, roleConfigVars>>

notEventBaseVars == <<agentVars, policyVars, eventVars, stopVars, managerVars, roleVars, guardVars, registryVars, shareVars, detectionVars, vaultVars, setValueVars, pollerVars, roleConfigVars>>

notSetValueVars == <<agentVars, policyVars, eventVars, stopVars, managerVars, roleVars, guardVars, registryVars, shareVars, detectionVars, vaultVars, eventBaseVars, pollerVars, roleConfigVars>>

notPollerVars == <<agentVars, policyVars, eventVars, stopVars, managerVars, roleVars, guardVars, registryVars, shareVars, detectionVars, vaultVars, eventBaseVars, setValueVars, roleConfigVars>>

notRoleConfigVars == <<agentVars, policyVars, eventVars, stopVars, managerVars, roleVars, guardVars, registryVars, shareVars, detectionVars, vaultVars, eventBaseVars, setValueVars, pollerVars>>

\* ------------------------------------------------------------ dict help

EmptyDict == <<>>

Has(d, k) == k \in DOMAIN d

\* dict.get(k, default)
Get(d, k, default) == IF k \in DOMAIN d THEN d[k] ELSE default

\* --------------------------------------------------------------- inputs

Urls == {"u1", "u2"}
ApiKeys == {"K"}
Tokens == {"T"}
AgentUuids == {"X", "Y"}
PolicyUuids == {"p1", "p2"}

\* Roles installed in the agent library, in the order load_roles indexes
\* them, and the role lists a policy may carry ("custom" is not installed).
LoadedRoles == <<"detector", "poller">>
LoadedRoleSet == {LoadedRoles[i] : i \in 1..Len(LoadedRoles)}
PolicyRoleSets == {{}, {"poller"}, {"detector", "poller"}, {"custom"}}

\* Status codes the console answers with; NoResponse: no answer at all.
NoResponse == 0
PairStatuses == {200, 409, 500, NoResponse}
HeartbeatStatuses == {200, 204, 500, NoResponse}

\* The console answers a heartbeat with 200 only for an agent it has issued
\* a uuid to.
ConsoleAnswers(cfg) ==
    IF cfg.uuid = "None" THEN HeartbeatStatuses \ {200} ELSE HeartbeatStatuses

\* ------------------------------------------------------------ AgentConfig

\* from_policy with roles defaulting to [] like the other fields: roles are
\* reset when the policy omits them.
FromPolicyDropsRoles(cfg, policy) ==
    [cfg EXCEPT
        !.policy_revision = Get(policy, "revision", 0),
        !.policy_uuid = Get(policy, "uuid", ""),
        !.role_configs = Get(policy, "role_configs", EmptyDict),
        !.event_cache_key = Get(policy, "event_cache_key", "signature"),
        !.event_cache_ttl = Get(policy, "event_cache_ttl", 30),
        !.disable_event_cache_check =
            Get(policy, "disable_event_cache_check", FALSE),
        !.health_check_interval = Get(policy, "health_check_interval", 30),
        !.console_info = Get(policy, "console_info", cfg.console_info),
        !.roles = Get(policy, "roles", {})]

\* AgentConfig.from_policy
FromPolicy(cfg, policy) ==
    [cfg EXCEPT
        !.policy_revision = Get(policy, "revision", 0),
        !.policy_uuid = Get(policy, "uuid", ""),
        !.role_configs = Get(policy, "role_configs", EmptyDict),
        !.event_cache_key = Get(policy, "event_cache_key", "signature"),
        !.event_cache_ttl = Get(policy, "event_cache_ttl", 30),
        !.disable_event_cache_check =
            Get(policy, "disable_event_cache_check", FALSE),
        !.health_check_interval = Get(policy, "health_check_interval", 30),
        !.console_info = Get(policy, "console_info", cfg.console_info),
        !.roles = Get(policy, "roles", cfg.roles)]

\* AgentConfig.__init__(uuid, roles, policy=None, **kwargs): the named
\* parameters uuid and roles are taken from the document, every other key
\* reaches from_policy as kwargs.
NewAgentConfig(doc) ==
    FromPolicy(
        [uuid |-> Get(doc, "uuid", "None"),
         roles |-> Get(doc, "roles", {}),
         role_configs |-> EmptyDict,
         console_info |-> EmptyDict,
         policy_revision |-> 0,
         policy_uuid |-> "",
         event_cache_key |-> "signature",
         event_cache_ttl |-> 30,
         disable_event_cache_check |-> FALSE,
         health_check_interval |-> 30],
        [k \in DOMAIN doc \ {"uuid", "roles"} |-> doc[k]])

\* ------------------------------------------------------ management layer

\* requests.Response.__bool__ as used by "if response" / "response and":
\* a response is truthy when one arrived and its status is below 400.
ResponseTruthy(status) == status # NoResponse /\ status < 400

\* HTTPConnection.__init__ with a name that is not the default one.
NewConnectionOtherName(url, api_key) ==
    [name |-> "management", url |-> url, api_key |-> api_key,
     ignore_tls |-> FALSE, auth |-> api_key]

\* HTTPConnection.__init__ with the default name; set_default_headers puts
\* "Bearer <api_key>" in the session's Authorization header (auth).
NewConnection(url, api_key) ==
    [name |-> "default", url |-> url, api_key |-> api_key,
     ignore_tls |-> FALSE, auth |-> api_key]

\* HTTPConnection.config
ConnConfig(conn) ==
    [name |-> conn.name, url |-> conn.url, api_key |-> conn.api_key,
     ignore_tls |-> conn.ignore_tls]

\* agent_pair without its update_header call: the token replaces api_key
\* but the session header is left as it was.
AgentPairKeepsHeader(conn, status, token) ==
    IF ResponseTruthy(status) /\ status = 200
    THEN [raised |-> "", response |-> "json",
          conn |-> [conn EXCEPT !.api_key = token]]
    ELSE IF ResponseTruthy(status) /\ status = 409
    THEN [raised |-> "ConsoleAlreadyPaired", response |-> "", conn |-> conn]
    ELSE IF ResponseTruthy(status) /\ status = 500
    THEN [raised |-> "ConsoleInternalServerError", response |-> "",
          conn |-> conn]
    ELSE [raised |-> "",
          response |-> IF ResponseTruthy(status) THEN "object" ELSE "falsy",
          conn |-> conn]

\* ManagementConnection.agent_pair: what it raises, what it returns ("json":
\* the parsed body, "object": a truthy Response, "falsy": a falsy Response or
\* None) and the connection afterwards.
AgentPair(conn, status, token) ==
    IF ResponseTruthy(status) /\ status = 200
    THEN [raised |-> "", response |-> "json",
          conn |-> [conn EXCEPT !.auth = token, !.api_key = token]]
    ELSE IF ResponseTruthy(status) /\ status = 409
    THEN [raised |-> "ConsoleAlreadyPaired", response |-> "", conn |-> conn]
    ELSE IF ResponseTruthy(status) /\ status = 500
    THEN [raised |-> "ConsoleInternalServerError", response |-> "",
          conn |-> conn]
    ELSE [raised |-> "",
          response |-> IF ResponseTruthy(status) THEN "object" ELSE "falsy",
          conn |-> conn]

\* ManagementConnection.agent_heartbeat: "json" (status 200), "raised"
\* (AgentHeartbeatFailed) or "falsy" (the falsy response is returned).
AgentHeartbeat(status) ==
    IF ResponseTruthy(status)
    THEN IF status = 200 THEN "json" ELSE "raised"
    ELSE "falsy"

\* ----------------------------------------------------------------- roles

\* The names that are keys of running_roles.
RoleKeys(rr) == {rr[i].name : i \in 1..Len(rr)}

\* The roles whose entry holds a role object (not None).
RoleObjects(rr) == {rr[i].name : i \in {j \in 1..Len(rr) : rr[j].role = "obj"}}

\* f"{role}_config"
ConfigName(role) ==
    CASE role = "poller" -> "poller_config"
      [] role = "detector" -> "detector_config"
      [] OTHER -> "custom_config"

\* Agent.stop_roles(roles), from the i-th entry of running_roles on: an
\* entry is skipped when a non-empty roles list names it; otherwise its
\* role is stopped (stop() joins the worker) and the entry is set to None.
\* Calling stop() on an entry that is already None raises AttributeError and
\* leaves the remaining entries as they are.
RECURSIVE StopFrom(_, _, _)
StopFrom(rr, roles, i) ==
    IF i > Len(rr) THEN [rr |-> rr, raised |-> ""]
    ELSE IF roles # {} /\ rr[i].name \in roles
    THEN StopFrom(rr, roles, i + 1)
    ELSE IF rr[i].role = "None"
    THEN [rr |-> rr, raised |-> "AttributeError"]
    ELSE StopFrom([rr EXCEPT ![i].role = "None"], roles, i + 1)

\* Agent.stop_roles
StopRoles(rr, roles) == StopFrom(rr, roles, 1)

\* Agent.start_roles, from the i-th loaded role on: a role named in
\* config.roles that is not a key of running_roles is initialized, stored
\* and started.
RECURSIVE StartFrom(_, _, _)
StartFrom(rr, roles, i) ==
    IF i > Len(LoadedRoles) THEN rr
    ELSE IF LoadedRoles[i] \in roles /\ LoadedRoles[i] \notin RoleKeys(rr)
    THEN StartFrom(Append(rr, [name |-> LoadedRoles[i], role |-> "obj"]),
                   roles, i + 1)
    ELSE StartFrom(rr, roles, i + 1)

\* Agent.start_roles
StartRoles(rr, roles) == StartFrom(rr, roles, 1)

\* BaseRole.set_config's default: wait_interval is added when missing.
SetConfig(cfg) ==
    IF Has(cfg, "wait_interval") THEN cfg ELSE cfg @@ [wait_interval |-> 10]

\* Agent.initialize_role's effect on _managed_configs for the roles that
\* start_roles starts: the role's entry of config.role_configs, or the
\* default {'wait_interval': 5}, to which BaseRole.__init__ applies
\* set_config when it is truthy.
InitializedConfigs(mc, cfg, started) ==
    [n \in DOMAIN mc \cup {ConfigName(r) : r \in started} |->
        IF n \in {ConfigName(r) : r \in started}
        THEN LET role_cfg == Get(cfg.role_configs, n, [wait_interval |-> 5])
             IN  IF role_cfg # EmptyDict THEN SetConfig(role_cfg) ELSE role_cfg
        ELSE mc[n]]

\* Agent._get_role_configs: the role configs the policy carries for loaded
\* roles, and _managed_configs after each key of a config whose role is a
\* key of running_roles has been written into the shared mapping.
GetRoleConfigs(policy, rr, mc) ==
    LET named == {r \in LoadedRoleSet :
                    DOMAIN Get(policy, ConfigName(r), EmptyDict) # {}}
    IN [role_configs |-> [n \in {ConfigName(r) : r \in named} |-> policy[n]],
        managed |->
            [n \in DOMAIN mc |->
                IF n \in {ConfigName(r) : r \in named \cap RoleKeys(rr)}
                THEN policy[n] @@ mc[n]
                ELSE mc[n]]]

\* ----------------------------------------------------------- check_policy

\* Python's == between a str and an int: never equal.
StrEqualsInt(s, n) == FALSE

\* The condition under which check_policy applies the fetched policy.
PolicyChanged(cfg, policy) ==
    \/ /\ policy["revision"] > cfg.policy_revision
       /\ StrEqualsInt(policy["uuid"], cfg.policy_revision)
    \/ policy["uuid"] # cfg.policy_uuid

\* Agent.check_policy on the fetched policy (<<>>: nothing fetched).  The
\* result names the exception that ends it, if any, and the state it leaves.
CheckPolicy(cfg, pers, rr, mc, policy) ==
    LET unchanged == [config |-> cfg, persisted |-> pers, running_roles |-> rr,
                      managed_configs |-> mc, raised |-> "",
                      applied |-> FALSE]
    IN IF DOMAIN policy = {} THEN unchanged
       ELSE IF ~PolicyChanged(cfg, policy) THEN unchanged
       ELSE LET cfg1 == FromPolicy(cfg, policy)
                grc == GetRoleConfigs(policy, rr, mc)
            IN IF DOMAIN grc.role_configs # {}
               \* set_value('role_configs', <dict>) calls json.loads on a
               \* dict, which raises TypeError
               THEN [config |-> cfg1, persisted |-> pers,
                     running_roles |-> rr, managed_configs |-> grc.managed,
                     raised |-> "TypeError", applied |-> TRUE]
               ELSE LET stopped == StopRoles(rr, cfg1.roles)
                        rr2 == IF cfg1.roles # {} /\ stopped.raised = ""
                               THEN StartRoles(stopped.rr, cfg1.roles)
                               ELSE stopped.rr
                        started == RoleKeys(rr2) \ RoleKeys(rr)
                    IN [config |-> cfg1,
                        persisted |-> IF stopped.raised = ""
                                      THEN <<cfg1>> ELSE pers,
                        running_roles |-> rr2,
                        managed_configs |->
                            InitializedConfigs(grc.managed, cfg1, started),
                        raised |-> stopped.raised,
                        applied |-> TRUE]

\* -------------------------------------------------------------- policies

\* What a policy may carry besides uuid and revision: nothing, roles, a
\* poller_config, or both.
PolicyExtras ==
    {EmptyDict} \cup [roles : PolicyRoleSets]
        \cup {[poller_config |-> [wait_interval |-> 7]],
              [roles |-> {"poller"}, poller_config |-> [wait_interval |-> 7]]}

\* The policies the console may answer with in the supervisor's run.
Policies ==
    { base @@ extra :
        base \in [uuid : PolicyUuids, revision : 1..MaxRevision],
        extra \in PolicyExtras }

\* What agent_get_policy may hand to check_policy: a policy or nothing.
PolicyResponses == Policies \cup {EmptyDict}

\* ------------------------------------------------------------ supervisor

\* The record kept in `last` for the claims: the operation and what it
\* returned or raised; for a pair the url asked for, the uuid the console
\* answered with and the url of console_info before it; for a heartbeat
\* whether it was sent and answered 200 ("ok"), sent and not answered 200
\* ("failed") or not sent; for a tick whether a policy was fetched, whether
\* its uuid or revision differed from the stored ones and whether
\* check_policy applied it.
NoOutcome ==
    [op |-> "init", result |-> "", url |-> "", key |-> "", uuid |-> "",
     token |-> "", pre_url |-> "", beat |-> "unsent", fetched |-> FALSE,
     differed |-> FALSE, applied |-> FALSE]

\* How a heartbeat went, for `last`.
Beat(sent, status) ==
    IF ~sent THEN "unsent" ELSE IF status = 200 THEN "ok" ELSE "failed"

\* The same test with the comparison turned round: a console is taken as
\* already paired when the stored url differs from the one asked for.
AlreadyPairedWhenUrlDiffers(cfg, url) ==
    Has(cfg.console_info, "url") /\ cfg.console_info["url"] # url

\* The test at the head of Agent.pair: console_info holds this very url.
AlreadyPaired(cfg, url) ==
    Has(cfg.console_info, "url") /\ cfg.console_info["url"] = url

\* Agent.pair(console_url, api_key): the exception it raises (or ""), the
\* value it returns, and the state it leaves.
Pair(cfg, pers, conns, managed, url, key, status, uuid, token) ==
    LET same == [config |-> cfg, persisted |-> pers, connections |-> conns,
                 managed |-> managed, raised |-> "", returned |-> FALSE,
                 wire |-> {}]
        conn0 == NewConnection(url, key)
        r == AgentPair(conn0, status, token)
        sent == {[kind |-> "pair", auth |-> conn0.auth, agent |-> "None"]}
        cfg1 == [cfg EXCEPT !.uuid = uuid,
                            !.console_info = ConnConfig(r.conn)]
    IN IF AlreadyPaired(cfg, url)
       THEN [same EXCEPT !.raised = "ConsoleAlreadyPaired"]
       ELSE IF conn0.name \in DOMAIN conns
       \* register_globally: add_management_connection refuses the name
       THEN [same EXCEPT !.raised = "DuplicateConnectionName"]
       ELSE IF r.raised # ""
       THEN [same EXCEPT !.connections = (r.conn.name :> r.conn) @@ conns,
                         !.raised = r.raised, !.wire = sent]
       ELSE IF r.response = "json"
       THEN [config |-> cfg1, persisted |-> <<cfg1>>,
             connections |-> (r.conn.name :> r.conn) @@ conns,
             managed |-> (r.conn.name :> r.conn) @@ managed,
             raised |-> "", returned |-> TRUE, wire |-> sent]
       ELSE IF r.response = "object"
       \* response['uuid'] on a Response object
       THEN [same EXCEPT !.connections = (r.conn.name :> r.conn) @@ conns,
                         !.raised = "TypeError", !.wire = sent]
       ELSE [same EXCEPT !.connections = (r.conn.name :> r.conn) @@ conns,
                         !.wire = sent]

\* Agent.heartbeat up to the answer of agent_heartbeat: the connection it
\* uses (the registered default one, or one built from console_info and
\* registered), the registries afterwards, the request sent, and the value
\* heartbeat returns unless check_policy raises: TRUE or FALSE.
Heartbeat(cfg, conns, managed, status) ==
    LET build == "default" \notin DOMAIN conns /\ DOMAIN cfg.console_info # {}
        conns1 == IF build
                  THEN ("default" :> NewConnection(cfg.console_info["url"],
                                         cfg.console_info["api_key"])) @@ conns
                  ELSE conns
        hasconn == "default" \in DOMAIN conns1
        answer == IF hasconn THEN AgentHeartbeat(status) ELSE "falsy"
    IN [connections |-> conns1,
        managed |-> IF hasconn
                    THEN ("default" :> conns1["default"]) @@ managed
                    ELSE managed,
        wire |-> IF hasconn
                 THEN {[kind |-> "heartbeat", auth |-> conns1["default"].auth,
                        agent |-> cfg.uuid]}
                 ELSE {},
        sent |-> hasconn,
        answer |-> answer,
        returned |-> answer # "raised"]

\* The workers after running_roles went from rr to rr2: the stopped roles'
\* workers have been joined, the started roles' workers are alive.
WorkersAfter(wk, rr, rr2) ==
    (wk \ (RoleObjects(rr) \ RoleObjects(rr2)))
        \cup (RoleObjects(rr2) \ RoleObjects(rr))

\* Agent.__init__ / Agent.load_persistent_config in a new process: the
\* config loaded from the persisted document, or the defaults.
LoadedConfig(pers) ==
    IF pers = <<>> THEN NewAgentConfig(EmptyDict) ELSE NewAgentConfig(pers[1])

AgentInit ==
    /\ pc = "cli"
    /\ exit_code = -1
    /\ config = NewAgentConfig(EmptyDict)
    /\ persisted = <<>>
    /\ connections = EmptyDict
    /\ managed_connections = EmptyDict
    /\ running_roles = <<>>
    /\ workers = {}
    /\ managed_configs = EmptyDict
    /\ pipeline = "none"
    /\ wire = {}
    /\ paired = [outcome |-> "none", token |-> ""]
    /\ last = NoOutcome

\* cli_start(agent, console, token, groups, no_start): pair, then run unless
\* no_start; ConsoleAlreadyPaired and ConsoleNotPaired end in sys.exit(1),
\* any other exception ends the process with a traceback (status 1).
CliStart(url, key, no_start, status, uuid, token) ==
    /\ pc = "cli"
    /\ LET r == Pair(config, persisted, connections, managed_connections,
                     url, key, status, uuid, token)
       IN /\ config' = r.config
          /\ persisted' = r.persisted
          /\ connections' = r.connections
          /\ managed_connections' = r.managed
          /\ wire' = r.wire
          /\ last' = [NoOutcome EXCEPT
                        !.op = "pair",
                        !.result = IF r.raised # "" THEN r.raised
                                   ELSE IF r.returned THEN "True" ELSE "False",
                        !.url = url,
                        !.key = key,
                        !.uuid = IF status = 200 THEN uuid ELSE "",
                        !.token = IF status = 200 THEN token ELSE "",
                        !.pre_url = Get(config.console_info, "url", "")]
          /\ paired' = IF r.raised = "" /\ r.returned
                       THEN [outcome |-> "ok", token |-> token]
                       ELSE [outcome |-> "failed", token |-> ""]
          /\ pc' = IF r.raised \in {"ConsoleAlreadyPaired", "ConsoleNotPaired"}
                   THEN "exited"
                   ELSE IF r.raised # "" THEN "crashed"
                   ELSE IF no_start THEN "exited" ELSE "run"
          /\ exit_code' = IF r.raised # "" THEN 1
                          ELSE IF no_start THEN 0 ELSE -1
    /\ UNCHANGED <<running_roles, workers, managed_configs, pipeline>>
    /\ UNCHANGED notAgentVars

\* cli with --start: Agent.run is entered without pairing.
CliRun ==
    /\ pc = "cli"
    /\ pc' = "run"
    /\ wire' = {}
    /\ last' = [NoOutcome EXCEPT !.op = "start"]
    /\ UNCHANGED <<exit_code, config, persisted, connections,
                   managed_connections, running_roles, workers,
                   managed_configs, pipeline, paired>>
    /\ UNCHANGED notAgentVars

\* Agent.run up to its loop: the initial heartbeat (skip_run), then
\* start_event_pipeline and start_roles, or sys.exit(1).
RunStart(status) ==
    /\ pc = "run"
    /\ LET hb == Heartbeat(config, connections, managed_connections, status)
           rr2 == StartRoles(running_roles, config.roles)
       IN /\ connections' = hb.connections
          /\ managed_connections' = hb.managed
          /\ wire' = hb.wire
          /\ last' = [NoOutcome EXCEPT
                        !.op = "run",
                        !.result = IF hb.returned THEN "True" ELSE "False",
                        !.beat = Beat(hb.sent, status)]
          /\ IF hb.returned
             THEN /\ pipeline' = "started"
                  /\ running_roles' = rr2
                  /\ workers' = WorkersAfter(workers, running_roles, rr2)
                  /\ managed_configs' =
                        InitializedConfigs(managed_configs, config,
                            RoleKeys(rr2) \ RoleKeys(running_roles))
                  /\ pc' = "running"
                  /\ exit_code' = exit_code
             ELSE /\ pc' = "exited"
                  /\ exit_code' = 1
                  /\ UNCHANGED <<pipeline, running_roles, workers,
                                 managed_configs>>
    /\ UNCHANGED <<config, persisted, paired>>
    /\ UNCHANGED notAgentVars

\* One turn of the loop of Agent.run: sleep, heartbeat (with check_policy on
\* the policy the console hands out when the heartbeat is answered 200);
\* when heartbeat returns False, stop_roles() and sys.exit(1).
Tick(status, policy) ==
    /\ pc = "running"
    /\ status # 200 => policy = EmptyDict
    /\ LET hb == Heartbeat(config, connections, managed_connections, status)
           cp == IF hb.answer = "json"
                 THEN CheckPolicy(config, persisted, running_roles,
                                  managed_configs, policy)
                 ELSE [config |-> config, persisted |-> persisted,
                       running_roles |-> running_roles,
                       managed_configs |-> managed_configs, raised |-> "",
                       applied |-> FALSE]
           stopped == StopRoles(running_roles, {})
           rr2 == IF hb.returned THEN cp.running_roles ELSE stopped.rr
           raised == IF hb.returned THEN cp.raised ELSE stopped.raised
       IN /\ connections' = hb.connections
          /\ managed_connections' = hb.managed
          /\ wire' = hb.wire \cup
                IF hb.answer = "json"
                THEN {[kind |-> "policy",
                       auth |-> hb.connections["default"].auth,
                       agent |-> config.uuid]}
                ELSE {}
          /\ config' = cp.config
          /\ persisted' = cp.persisted
          /\ managed_configs' = cp.managed_configs
          /\ running_roles' = rr2
          /\ workers' = WorkersAfter(workers, running_roles, rr2)
          /\ last' = [NoOutcome EXCEPT
                        !.op = "tick",
                        !.result = IF raised # "" THEN raised
                                   ELSE IF hb.returned THEN "True" ELSE "False",
                        !.beat = Beat(hb.sent, status),
                        !.fetched = hb.answer = "json" /\ DOMAIN policy # {},
                        !.differed =
                            /\ hb.answer = "json"
                            /\ DOMAIN policy # {}
                            /\ \/ policy["uuid"] # config.policy_uuid
                               \/ policy["revision"] # config.policy_revision,
                        !.applied = cp.applied]
          /\ pc' = IF raised # "" THEN "crashed"
                   ELSE IF hb.returned THEN "running" ELSE "exited"
          /\ exit_code' = IF raised # "" \/ ~hb.returned THEN 1 ELSE -1
    /\ UNCHANGED <<pipeline, paired>>
    /\ UNCHANGED notAgentVars

\* KeyboardInterrupt in the loop of Agent.run: stop_roles(), sys.exit(0).
Interrupt ==
    /\ pc = "running"
    /\ LET stopped == StopRoles(running_roles, {})
       IN /\ running_roles' = stopped.rr
          /\ workers' = WorkersAfter(workers, running_roles, stopped.rr)
          /\ last' = [NoOutcome EXCEPT !.op = "interrupt",
                                       !.result = stopped.raised]
          /\ pc' = IF stopped.raised # "" THEN "crashed" ELSE "exited"
          /\ exit_code' = IF stopped.raised # "" THEN 1 ELSE 0
    /\ wire' = {}
    /\ UNCHANGED <<config, persisted, connections, managed_connections,
                   managed_configs, pipeline, paired>>
    /\ UNCHANGED notAgentVars

\* The agent is started again after its process ended: cli builds a new
\* Agent, which loads (and saves back) the persisted config; the registries
\* and the role table of the new process are empty.
Restart ==
    /\ pc \in {"exited", "crashed"}
    /\ pc' = "cli"
    /\ exit_code' = -1
    /\ config' = LoadedConfig(persisted)
    /\ persisted' = IF persisted = <<>> THEN <<>> ELSE <<LoadedConfig(persisted)>>
    /\ connections' = EmptyDict
    /\ managed_connections' = EmptyDict
    /\ running_roles' = <<>>
    /\ workers' = {}
    /\ managed_configs' = EmptyDict
    /\ pipeline' = "none"
    /\ wire' = {}
    /\ paired' = [outcome |-> "none", token |-> ""]
    /\ last' = [NoOutcome EXCEPT !.op = "restart"]
    /\ UNCHANGED notAgentVars

AgentNext ==
    \/ \E url \in Urls, key \in ApiKeys, no_start \in BOOLEAN,
          status \in PairStatuses, uuid \in AgentUuids, token \in Tokens :
            CliStart(url, key, no_start, status, uuid, token)
    \/ CliRun
    \/ \E status \in ConsoleAnswers(config) : RunStart(status)
    \/ \E status \in ConsoleAnswers(config), policy \in PolicyResponses :
            Tick(status, policy)
    \/ Interrupt
    \/ Restart

\* ------------------------------------------------------------ from_policy

\* The configs from_policy is called on: the defaults, with roles, the
\* console and the tunables as an earlier pair, policy or persisted
\* document may have left them.
DrawnConfigs ==
    { [NewAgentConfig(EmptyDict) EXCEPT
            !.uuid = "X",
            !.roles = r,
            !.console_info = c,
            !.role_configs = rc,
            !.event_cache_key = k,
            !.event_cache_ttl = t,
            !.disable_event_cache_check = d,
            !.health_check_interval = h] :
        r \in {{}, {"poller"}},
        c \in {EmptyDict, ConnConfig(NewConnection("u1", "T"))},
        rc \in {EmptyDict, [poller_config |-> [wait_interval |-> 7]]},
        k \in {"signature", "host"},
        t \in {30, 5},
        d \in BOOLEAN,
        h \in {30, 60} }

\* The policy documents from_policy is called with: any of the keys it
\* reads may be absent.
PartialPolicies ==
    { u @@ rv @@ r @@ c @@ rc @@ k @@ t @@ d @@ h :
        u \in {EmptyDict, [uuid |-> "p1"]},
        rv \in {EmptyDict} \cup [revision : 1..MaxRevision],
        r \in {EmptyDict, [roles |-> {"detector"}]},
        c \in {EmptyDict,
               [console_info |-> ConnConfig(NewConnection("u2", "T"))]},
        rc \in {EmptyDict,
                [role_configs |-> [detector_config |-> [wait_interval |-> 9]]]},
        k \in {EmptyDict, [event_cache_key |-> "rule"]},
        t \in {EmptyDict, [event_cache_ttl |-> 10]},
        d \in {EmptyDict, [disable_event_cache_check |-> TRUE]},
        h \in {EmptyDict, [health_check_interval |-> 45]} }

PolicyIdle ==
    /\ policy_before = NewAgentConfig(EmptyDict)
    /\ policy_config = NewAgentConfig(EmptyDict)
    /\ policy_in = EmptyDict
    /\ policy_applied = FALSE

PolicyInit ==
    /\ policy_config \in DrawnConfigs
    /\ policy_before = policy_config
    /\ policy_in = EmptyDict
    /\ policy_applied = FALSE

\* config.from_policy(policy)
ApplyPolicy(policy) ==
    /\ ~policy_applied
    /\ policy_before' = policy_config
    /\ policy_config' = FromPolicy(policy_config, policy)
    /\ policy_in' = policy
    /\ policy_applied' = TRUE
    /\ UNCHANGED notPolicyVars

PolicyNext == \E policy \in PartialPolicies : ApplyPolicy(policy)

\* --------------------------------------------------------- event pipeline

\* The processes that call prepare_events.
Producers == {"poller", "detector"}

\* What ManagementConnection.bulk_events(events) does with a batch: it
\* answers truthy on success and falsy on failure, or an exception that
\* call_api does not catch (it catches ConnectionError and HTTPError only)
\* passes through it.
BulkOutcomes == {"truthy", "falsy", "raised"}

Range(q) == {q[i] : i \in 1..Len(q)}

\* The events of q that are in the set S, in the order of q.
Restrict(q, S) == SelectSeq(q, LAMBDA e : e \in S)

\* a is an initial part of b.
IsPrefix(a, b) == Len(a) <= Len(b) /\ \A i \in 1..Len(a) : a[i] = b[i]

\* EventManager.__init__ with a connection: an empty queue, back_pressure 1,
\* initialized; the spooler is running when start_event_pipeline (or
\* initialize) started one, and there is none when the manager was only
\* constructed.
EventsInit ==
    /\ event_queue = <<>>
    /\ producer_pc = [p \in Producers |-> "idle"]
    /\ held = [p \in Producers |-> <<>>]
    /\ submitted = [p \in Producers |-> 0]
    /\ back_pressure = [p \in Producers |-> 1]
    /\ next_event = 0
    /\ spooler \in {"none", "running"}
    /\ batch = <<>>
    /\ lost = {}
    /\ passed = <<>>
    /\ stalled = [p \in Producers |-> FALSE]
    /\ enqueued = [p \in Producers |-> <<>>]

EventsIdle == EventsInit /\ spooler = "none"

\* prepare_events(*events) is called with n events: the manager is
\* initialized, so the call reaches the back pressure loop.
PrepareEvents(p, n) ==
    /\ producer_pc[p] = "idle"
    /\ next_event + n <= MaxEvents
    /\ held' = [held EXCEPT ![p] = [i \in 1..n |-> next_event + i]]
    /\ submitted' = [submitted EXCEPT ![p] = @ + n]
    /\ next_event' = next_event + n
    /\ producer_pc' = [producer_pc EXCEPT ![p] = "check"]
    /\ stalled' = [stalled EXCEPT ![p] = FALSE]
    /\ UNCHANGED <<event_queue, back_pressure, spooler, batch, lost, passed>>
    /\ UNCHANGED enqueued
    /\ UNCHANGED notEventVars

\* One turn of "while self.event_queue.qsize() > self._max_spooled_events":
\* back_pressure += 1, sleep.
BackPressure(p) ==
    /\ producer_pc[p] = "check"
    /\ Len(event_queue) > max_spooled_events
    /\ back_pressure[p] < MaxBackPressure
    /\ back_pressure' = [back_pressure EXCEPT ![p] = @ + 1]
    /\ stalled' = [stalled EXCEPT ![p] = TRUE]
    /\ UNCHANGED <<event_queue, producer_pc, held, submitted, next_event,
                   spooler, batch, lost, passed>>
    /\ UNCHANGED enqueued
    /\ UNCHANGED notEventVars

LeaveBackPressureKeepsCounter(p) ==
    /\ producer_pc[p] = "check"
    /\ ~(Len(event_queue) > max_spooled_events)
    /\ producer_pc' = [producer_pc EXCEPT ![p] = "put"]
    /\ UNCHANGED <<event_queue, held, submitted, next_event, spooler, batch,
                   lost, passed, stalled, back_pressure>>
    /\ UNCHANGED enqueued
    /\ UNCHANGED notEventVars

\* The loop condition is false: back_pressure = 1 and the for loop over the
\* events is entered.
LeaveBackPressure(p) ==
    /\ producer_pc[p] = "check"
    /\ ~(Len(event_queue) > max_spooled_events)
    /\ back_pressure' = [back_pressure EXCEPT ![p] = 1]
    /\ producer_pc' = [producer_pc EXCEPT ![p] = "put"]
    /\ UNCHANGED <<event_queue, held, submitted, next_event, spooler, batch,
                   lost, passed, stalled>>
    /\ UNCHANGED enqueued
    /\ UNCHANGED notEventVars

\* One turn of "for event in events": event_queue.put(parse_event(event));
\* after the last event prepare_events returns None.
PutEvent(p) ==
    /\ producer_pc[p] = "put"
    /\ event_queue' = Append(event_queue, Head(held[p]))
    /\ held' = [held EXCEPT ![p] = Tail(@)]
    /\ producer_pc' = [producer_pc EXCEPT
            ![p] = IF Tail(held[p]) = <<>> THEN "idle" ELSE "put"]
    /\ UNCHANGED <<submitted, back_pressure, next_event, spooler, batch,
                   lost, passed, stalled>>
    /\ enqueued' = [enqueued EXCEPT ![p] = Append(@, Head(held[p]))]
    /\ UNCHANGED notEventVars

SpoolerGetNewest ==
    /\ spooler = "running"
    /\ event_queue # <<>>
    /\ Len(batch) < bulk_size
    /\ ~(batch = <<>> /\ stopper # "idle")
    /\ batch' = Append(batch, event_queue[Len(event_queue)])
    /\ event_queue' = SubSeq(event_queue, 1, Len(event_queue) - 1)
    /\ UNCHANGED <<producer_pc, held, submitted, back_pressure, next_event,
                   spooler, lost, passed, stalled, enqueued>>
    /\ UNCHANGED notEventVars

\* EventSpooler._process_events, inner loop: events.append(queue.get()).
\* A new list of events is begun only after "if self._running is False:
\* break" has found the spooler not asked to stop.
SpoolerGet ==
    /\ spooler = "running"
    /\ event_queue # <<>>
    /\ Len(batch) < bulk_size
    /\ ~(batch = <<>> /\ stopper # "idle")
    /\ batch' = Append(batch, Head(event_queue))
    /\ event_queue' = Tail(event_queue)
    /\ UNCHANGED <<producer_pc, held, submitted, back_pressure, next_event,
                   spooler, lost, passed, stalled>>
    /\ UNCHANGED enqueued
    /\ UNCHANGED notEventVars

SpoolerSendFullOnly(outcome) ==
    /\ spooler = "running"
    /\ batch # <<>>
    /\ Len(batch) >= bulk_size
    /\ passed' = passed \o batch
    /\ spooler' = IF outcome = "raised" THEN "dead" ELSE "running"
    /\ lost' = IF outcome = "raised" THEN lost \cup Range(batch) ELSE lost
    /\ batch' = <<>>
    /\ UNCHANGED <<event_queue, producer_pc, held, submitted, back_pressure,
                   next_event, stalled, enqueued>>
    /\ UNCHANGED notEventVars

\* EventSpooler._send_events(events): self.conn.bulk_events(events), whose
\* answer is only logged.  Neither _send_events nor _process_events catches
\* an exception, and EventSpooler.run catches KeyboardInterrupt only: when
\* the call raises, the spooler process ends.  A truthy and a falsy answer
\* differ in the log line only, and the events of the batch are in no case
\* put back on the queue.
SpoolerSend(outcome) ==
    /\ spooler = "running"
    /\ batch # <<>>
    /\ (Len(batch) >= bulk_size \/ event_queue = <<>>)
    /\ passed' = passed \o batch
    /\ spooler' = IF outcome = "raised" THEN "dead" ELSE "running"
    /\ lost' = IF outcome = "raised" THEN lost \cup Range(batch) ELSE lost
    /\ batch' = <<>>
    /\ UNCHANGED <<event_queue, producer_pc, held, submitted, back_pressure,
                   next_event, stalled>>
    /\ UNCHANGED enqueued
    /\ UNCHANGED notEventVars

EventsNext ==
    \/ \E p \in Producers, n \in 1..MaxBatch : PrepareEvents(p, n)
    \/ \E p \in Producers : BackPressure(p)
    \/ \E p \in Producers : LeaveBackPressure(p)
    \/ \E p \in Producers : PutEvent(p)
    \/ SpoolerGet
    \/ \E outcome \in BulkOutcomes : SpoolerSend(outcome)

\* ------------------------------------------------- EventManager lifecycle

\* conn = None
NoConn == "None"

ManagerConns == {"default", "console-b"}

\* bool(conn): a connection object is truthy, None is not.
ConnTruthy(conn) == conn # NoConn

\* EventManager.__init__(conn): initialized exactly when a connection is
\* given; no spooler is created.
ManagerInit(conn) ==
    /\ initialized = (conn # NoConn)
    /\ management_conn = conn
    /\ manager_spoolers = 0
    /\ manager_queue = <<>>
    /\ manager_last = [op |-> "construct", arg |-> conn, result |-> "ok"]

\* The module's event_manager = EventManager().
ManagerIdle == ManagerInit(NoConn)

\* EventManager(conn=conn) for any conn, None included.
ManagerDrawn == \E conn \in ManagerConns \cup {NoConn} : ManagerInit(conn)

\* EventManager._init_spooler: a spooler is created and started when
\* management_conn is truthy.
InitSpooler(conn, n) == IF ConnTruthy(conn) THEN n + 1 ELSE n

\* EventManager.initialize(conn)
Initialize(conn) ==
    /\ IF initialized = FALSE
          THEN /\ management_conn' = conn
               /\ manager_spoolers' = InitSpooler(conn, manager_spoolers)
               /\ initialized' = TRUE
               /\ manager_last' =
                    [op |-> "initialize", arg |-> conn, result |-> "ok"]
          ELSE /\ manager_last' =
                    [op |-> "initialize", arg |-> conn,
                     result |-> "EventManagedInitializedError"]
               /\ UNCHANGED <<initialized, management_conn, manager_spoolers>>
    /\ UNCHANGED manager_queue
    /\ UNCHANGED notManagerVars

\* What a caller passes to prepare_events: Event objects, with the source
\* they were built with, and raw records (dicts).
PreparedItems ==
    {[type |-> "Event", source |-> "Unknown"], [type |-> "Event", source |-> "es"],
     [type |-> "dict", source |-> "None"]}

\* EventManager.parse_event(event): returns its argument.
ParseEvent(item) == item

\* EventManager.prepare_events(*events) with a queue below
\* _max_spooled_events: it raises when the manager is not initialized;
\* otherwise it puts every Event as it is and every other item as
\* parse_event returns it.
ManagerPrepareEvents(events) ==
    /\ Len(manager_queue) + Len(events) <= MaxEvents
    /\ IF initialized = FALSE
          THEN /\ manager_last' =
                    [op |-> "prepare_events", arg |-> NoConn,
                     result |-> "EventManagedInitializedError"]
               /\ UNCHANGED manager_queue
          ELSE /\ manager_queue' = manager_queue \o
                    [i \in DOMAIN events |->
                        IF events[i].type = "Event" THEN events[i]
                        ELSE ParseEvent(events[i])]
               /\ manager_last' =
                    [op |-> "prepare_events", arg |-> NoConn, result |-> "ok"]
    /\ UNCHANGED <<initialized, management_conn, manager_spoolers>>
    /\ UNCHANGED notManagerVars

ManagerNext ==
    \/ \E conn \in ManagerConns \cup {NoConn} : Initialize(conn)
    \/ \E n \in 1..MaxBatch : \E events \in [1..n -> PreparedItems] :
            ManagerPrepareEvents(events)

\* ------------------------------------------------------------ BaseRole.run

\* Two role processes.
Roles == {"poller", "detector"}

\* "while self._running": _running is the proxy that manager.Value(bool,
\* False) returns, an object without __bool__ or __len__, truthy whatever
\* its value is.
RunningTruthy == TRUE

\* main() calls are counted up to one more than the largest max_loop_count.
CountMain(n) == IF n <= MaxLoopCount THEN n + 1 ELSE n

\* BaseRole.__init__, then disable_run_loop and max_loop_count as set before
\* start().
RolesSetUp(disable, count) ==
    /\ role_pc = [r \in Roles |-> "new"]
    /\ should_stop = [r \in Roles |-> FALSE]
    /\ loop_executions = [r \in Roles |-> 0]
    /\ mains = [r \in Roles |-> 0]
    /\ mains_after_stop = [r \in Roles |-> 0]
    /\ stop_pc = [r \in Roles |-> "idle"]
    /\ disable_run_loop = disable
    /\ max_loop_count = count

\* BaseRole.__init__: disable_run_loop = False, max_loop_count = 0.
RolesIdle ==
    RolesSetUp([r \in Roles |-> FALSE], [r \in Roles |-> 0])

RolesInit ==
    \E disable \in [Roles -> BOOLEAN], count \in [Roles -> 0..MaxLoopCount] :
        RolesSetUp(disable, count)

\* start(): the process begins run(); with disable_run_loop it goes
\* straight to main().
RoleStart(r) ==
    /\ role_pc[r] = "new"
    /\ role_pc' = [role_pc EXCEPT
            ![r] = IF disable_run_loop[r] THEN "checked" ELSE "loop"]
    /\ UNCHANGED <<should_stop, loop_executions, mains, mains_after_stop,
                   stop_pc, disable_run_loop, max_loop_count>>
    /\ UNCHANGED notRoleVars

\* loop_executions after "if self.max_loop_count != 0: loop_executions += 1"
Counted(r) ==
    IF max_loop_count[r] # 0 THEN loop_executions[r] + 1
    ELSE loop_executions[r]

RoleLoopStopsAtCount(r) ==
    /\ role_pc[r] = "loop"
    /\ RunningTruthy
    /\ loop_executions' = [loop_executions EXCEPT ![r] = Counted(r)]
    /\ should_stop' = [should_stop EXCEPT
            ![r] = @ \/ Counted(r) >= max_loop_count[r]]
    /\ role_pc' = [role_pc EXCEPT
            ![r] = IF should_stop'[r] THEN "done" ELSE "checked"]
    /\ UNCHANGED <<mains, mains_after_stop, stop_pc, disable_run_loop,
                   max_loop_count>>
    /\ UNCHANGED notRoleVars

\* The head of one turn of the loop: count the turn, set the stop event when
\* the count passes max_loop_count, break when the stop event is set.
RoleLoop(r) ==
    /\ role_pc[r] = "loop"
    /\ RunningTruthy
    /\ loop_executions' = [loop_executions EXCEPT ![r] = Counted(r)]
    /\ should_stop' = [should_stop EXCEPT
            ![r] = @ \/ Counted(r) > max_loop_count[r]]
    /\ role_pc' = [role_pc EXCEPT
            ![r] = IF should_stop'[r] THEN "done" ELSE "checked"]
    /\ UNCHANGED <<mains, mains_after_stop, stop_pc, disable_run_loop,
                   max_loop_count>>
    /\ UNCHANGED notRoleVars

\* self.main() is entered.
RoleMain(r) ==
    /\ role_pc[r] = "checked"
    /\ mains' = [mains EXCEPT ![r] = CountMain(@)]
    /\ mains_after_stop' = [mains_after_stop EXCEPT
            ![r] = IF stop_pc[r] # "idle" THEN CountMain(@) ELSE @]
    /\ role_pc' = [role_pc EXCEPT ![r] = "main"]
    /\ UNCHANGED <<should_stop, loop_executions, stop_pc, disable_run_loop,
                   max_loop_count>>
    /\ UNCHANGED notRoleVars

\* main() has returned and time.sleep(wait_interval) is over: back to the
\* head of the loop, or out of run() with disable_run_loop.
RoleSleep(r) ==
    /\ role_pc[r] = "main"
    /\ role_pc' = [role_pc EXCEPT
            ![r] = IF disable_run_loop[r] THEN "done" ELSE "loop"]
    /\ UNCHANGED <<should_stop, loop_executions, mains, mains_after_stop,
                   stop_pc, disable_run_loop, max_loop_count>>
    /\ UNCHANGED notRoleVars

RoleStopSharedEvent(r, from_self) ==
    /\ stop_pc[r] = "idle"
    /\ role_pc[r] # "new"
    /\ from_self => role_pc[r] = "main"
    /\ should_stop' = [q \in Roles |-> TRUE]
    /\ stop_pc' = [stop_pc EXCEPT
            ![r] = IF from_self THEN "self" ELSE "joining"]
    /\ UNCHANGED <<role_pc, loop_executions, mains, mains_after_stop,
                   disable_run_loop, max_loop_count>>
    /\ UNCHANGED notRoleVars

\* stop(from_self) on a started role: _running.value = False,
\* _should_stop.set(), and the caller goes on to join() unless from_self;
\* from_self is the call a role makes from its own main().
RoleStop(r, from_self) ==
    /\ stop_pc[r] = "idle"
    /\ role_pc[r] # "new"
    /\ from_self => role_pc[r] = "main"
    /\ should_stop' = [should_stop EXCEPT ![r] = TRUE]
    /\ stop_pc' = [stop_pc EXCEPT
            ![r] = IF from_self THEN "self" ELSE "joining"]
    /\ UNCHANGED <<role_pc, loop_executions, mains, mains_after_stop,
                   disable_run_loop, max_loop_count>>
    /\ UNCHANGED notRoleVars

\* self.join() returns when the role's process has ended.
RoleJoined(r) ==
    /\ stop_pc[r] = "joining"
    /\ role_pc[r] = "done"
    /\ stop_pc' = [stop_pc EXCEPT ![r] = "returned"]
    /\ UNCHANGED <<role_pc, should_stop, loop_executions, mains,
                   mains_after_stop, disable_run_loop, max_loop_count>>
    /\ UNCHANGED notRoleVars

RolesNext ==
    \/ \E r \in Roles : RoleStart(r)
    \/ \E r \in Roles : RoleLoop(r)
    \/ \E r \in Roles : RoleMain(r)
    \/ \E r \in Roles : RoleSleep(r)
    \/ \E r \in Roles, from_self \in BOOLEAN : RoleStop(r, from_self)
    \/ \E r \in Roles : RoleJoined(r)

\* ------------------------------------------------------ connection registry

RegistryNames == {"default", "console-b", "console-c"}

\* Connections of every name, two of each name (to two urls).
RegistryConns ==
    {[NewConnection(url, api_key) EXCEPT !.name = name] :
        name \in RegistryNames, url \in Urls, api_key \in ApiKeys}

RegistryIdle ==
    /\ registry_last = [op |-> "none", name |-> "", result |-> "",
                        returned |-> NoConn]
    /\ removed = {}

AddManagementConnectionOverwrites(conn) ==
    /\ registry_last' = [op |-> "add", name |-> conn.name, result |-> "ok",
                         returned |-> NoConn]
    /\ connections' = (conn.name :> conn) @@ connections
    /\ UNCHANGED removed
    /\ UNCHANGED notRegistryVars

\* add_management_connection(conn)
AddManagementConnection(conn) ==
    /\ IF Has(connections, conn.name)
          THEN /\ registry_last' =
                    [op |-> "add", name |-> conn.name,
                     result |-> "DuplicateConnectionName",
                     returned |-> NoConn]
               /\ UNCHANGED connections
          ELSE /\ registry_last' =
                    [op |-> "add", name |-> conn.name, result |-> "ok",
                     returned |-> NoConn]
               /\ connections' = (conn.name :> conn) @@ connections
    /\ UNCHANGED removed
    /\ UNCHANGED notRegistryVars

\* remove_management_connection(conn): connections.pop(conn.name)
RemoveManagementConnection(conn) ==
    /\ IF ~Has(connections, conn.name)
          THEN /\ registry_last' =
                    [op |-> "remove", name |-> conn.name,
                     result |-> "ConnectionNotExist", returned |-> NoConn]
               /\ UNCHANGED <<connections, removed>>
          ELSE /\ registry_last' =
                    [op |-> "remove", name |-> conn.name, result |-> "ok",
                     returned |-> NoConn]
               /\ connections' =
                    [n \in DOMAIN connections \ {conn.name} |-> connections[n]]
               /\ removed' = removed \cup {conn.name}
    /\ UNCHANGED notRegistryVars

\* get_management_connection(name)
GetManagementConnection(name) ==
    /\ registry_last' =
            [op |-> "get", name |-> name, result |-> "ok",
             returned |-> IF Has(connections, name) THEN connections[name]
                          ELSE NoConn]
    /\ UNCHANGED <<connections, removed>>
    /\ UNCHANGED notRegistryVars

RegistryNext ==
    \/ \E conn \in RegistryConns : AddManagementConnection(conn)
    \/ \E conn \in RegistryConns : RemoveManagementConnection(conn)
    \/ \E name \in RegistryNames : GetManagementConnection(name)

\* --------------------------------------------------------------- RoleGuard

\* The methods of BaseRole decorated with @RoleGuard.final.
FinalMethods ==
    {"set_config", "get_connection", "share_connection",
     "unshare_connection", "_load_classes", "load_inputs", "stop"}

\* The other callables of BaseRole's class body.
PlainMethods == {"__init__", "__repr__", "_default_config", "main", "run"}

\* Names a role class may define: the final ones, main and one of its own.
DrawnMethods == FinalMethods \cup {"main", "poll"}

\* The class bodies drawn: at most MaxMethods names each.
ClassDicts == {d \in SUBSET DrawnMethods : Cardinality(d) <= MaxMethods}

\* The names of the classes created, in the order of their creation.
ClassNames == <<"Role1", "Role2", "Role3">>

\* class BaseRole(Process, metaclass=RoleGuard)
GuardIdle ==
    /\ classes = ("BaseRole" :>
            [base |-> "Process", dict |-> FinalMethods \cup PlainMethods])
    /\ guard_last = [op |-> "none", name |-> "", base |-> "", dict |-> {},
                     result |-> ""]

\* RoleGuard.__is_final(value) for the entry `key` of vars(cls): only the
\* functions decorated in BaseRole's body carry the mark; a function that a
\* subclass defines is a new object without it.
IsFinal(cls, key) == cls = "BaseRole" /\ key \in FinalMethods

\* private = {key for base in bases for key, value in vars(base).items()
\*            if callable(value) and mcs.__is_final(value)}
\* vars(base) is the base's own dict, without what it inherits.
Private(base) == {key \in classes[base].dict : IsFinal(base, key)}

\* RoleGuard.__new__(mcs, name, bases, class_dict) for "class name(base):"
\* whose body defines the names of class_dict.
NewClass(name, base, class_dict) ==
    /\ name \notin DOMAIN classes
    /\ base \in DOMAIN classes
    /\ Cardinality(DOMAIN classes) <= MaxClasses
    /\ IF \E key \in class_dict : key \in Private(base)
          THEN /\ guard_last' = [op |-> "class", name |-> name, base |-> base,
                                 dict |-> class_dict, result |-> "TypeError"]
               /\ UNCHANGED classes
          ELSE /\ guard_last' = [op |-> "class", name |-> name, base |-> base,
                                 dict |-> class_dict, result |-> "created"]
               /\ classes' =
                    (name :> [base |-> base, dict |-> class_dict]) @@ classes
    /\ UNCHANGED notGuardVars

GuardNext ==
    \E i \in 1..Len(ClassNames), base \in DOMAIN classes,
       class_dict \in ClassDicts :
        /\ i = Cardinality(DOMAIN classes)
        /\ NewClass(ClassNames[i], base, class_dict)

\* ------------------------------------------------------- EventSpooler.stop

StopIdle == stopper = "idle"

\* stop(from_self=False) called by another process on a spooler that was
\* started: it signals the worker to terminate, then waits for it.
SpoolerStop ==
    /\ stopper = "idle"
    /\ spooler \in {"running", "dead"}
    /\ stopper' = "joining"
    /\ UNCHANGED eventVars
    /\ UNCHANGED notStopVars

\* The worker finds itself asked to stop where it tests self._running,
\* between two lists of events, and run() returns.
SpoolerExit ==
    /\ spooler = "running"
    /\ stopper # "idle"
    /\ batch = <<>>
    /\ spooler' = "stopped"
    /\ UNCHANGED <<event_queue, producer_pc, held, submitted, back_pressure,
                   next_event, batch, lost, passed, stalled, enqueued>>
    /\ UNCHANGED notEventVars

SpoolerStopNoJoin ==
    /\ stopper = "joining"
    /\ stopper' = "returned"
    /\ UNCHANGED eventVars
    /\ UNCHANGED notStopVars

\* The wait of stop() ends when the worker process has ended.
SpoolerStopReturn ==
    /\ stopper = "joining"
    /\ spooler \in {"stopped", "dead"}
    /\ stopper' = "returned"
    /\ UNCHANGED eventVars
    /\ UNCHANGED notStopVars

SpoolerStopNext ==
    \/ EventsNext
    \/ SpoolerStop
    \/ SpoolerExit
    \/ SpoolerStopReturn

\* ------------------------------------------------------ shared connections

\* BaseRole.__init__(connections=d) for every role, with the same d:
\* "if connections: self.connections = connections" keeps the object passed
\* when it is truthy (not empty), and gives the role a dict of its own
\* otherwise.
RolesShare(d) ==
    /\ role_dict = [r \in Roles |-> IF d # EmptyDict THEN "shared" ELSE r]
    /\ dicts = IF d # EmptyDict THEN ("shared" :> d)
               ELSE [r \in Roles |-> EmptyDict]
    /\ share_last = [op |-> "none", role |-> "", name |-> "",
                     conn |-> NoConn, changed |-> FALSE]

ShareIdle == RolesShare(EmptyDict)

\* The dicts an agent or a test hands to its roles: empty, or holding the
\* console connection "default", alone or with another connection.
PassedDicts ==
    {EmptyDict}
        \cup {("default" :> c) : c \in {k \in RegistryConns : k.name = "default"}}
        \cup {("default" :> c) @@ ("console-b" :> k) :
                c \in {k \in RegistryConns : k.name = "default"},
                k \in {k \in RegistryConns : k.name = "console-b"}}

ShareInit == \E d \in PassedDicts : RolesShare(d)

\* BaseRole.get_connection(name): self.connections.get(name)
GetConnection(d, name) == Get(d, name, NoConn)

ShareConnectionAnyName(r, connection) ==
    LET d == dicts[role_dict[r]]
        add == connection.name \notin DOMAIN d
    IN  /\ dicts' = [dicts EXCEPT ![role_dict[r]] =
                IF add THEN (connection.name :> connection) @@ d ELSE d]
        /\ share_last' = [op |-> "share", role |-> r,
                          name |-> connection.name, conn |-> connection,
                          changed |-> add]
        /\ UNCHANGED role_dict
        /\ UNCHANGED notShareVars

\* BaseRole.share_connection(connection)
ShareConnection(r, connection) ==
    LET d == dicts[role_dict[r]]
        add == connection.name \notin DOMAIN d /\ connection.name # "default"
    IN  /\ dicts' = [dicts EXCEPT ![role_dict[r]] =
                IF add THEN (connection.name :> connection) @@ d ELSE d]
        /\ share_last' = [op |-> "share", role |-> r,
                          name |-> connection.name, conn |-> connection,
                          changed |-> add]
        /\ UNCHANGED role_dict
        /\ UNCHANGED notShareVars

\* BaseRole.unshare_connection(name)
UnshareConnection(r, name) ==
    LET d == dicts[role_dict[r]]
        del == name \in DOMAIN d /\ name # "default"
    IN  /\ dicts' = [dicts EXCEPT ![role_dict[r]] =
                IF del THEN [n \in DOMAIN d \ {name} |-> d[n]] ELSE d]
        /\ share_last' = [op |-> "unshare", role |-> r, name |-> name,
                          conn |-> NoConn, changed |-> del]
        /\ UNCHANGED role_dict
        /\ UNCHANGED notShareVars

ShareNext ==
    \/ \E r \in Roles, connection \in RegistryConns :
            ShareConnection(r, connection)
    \/ \E r \in Roles, name \in RegistryNames : UnshareConnection(r, name)

\* ------------------------------------------------------ detection schedule

\* A date string holds the instant it denotes; "" holds none.
EmptyString == <<>>

\* datetime.isoformat() of the instant t
IsoFormat(t) == <<t>>

\* date_parser.isoparse(s).replace(tzinfo=None); isoparse("") raises
\* ValueError, which the callers below test for with s = EmptyString.
IsoParse(s) == s[1]

\* timedelta(minutes=m), in ticks
Minutes(m) == m * TicksPerMinute

\* math.ceil(n / d) for n >= 0
Ceil(n, d) == (n + d - 1) \div d

DetectionStep(op, result, catchup_period) ==
    [op |-> op, result |-> result, catchup_period |-> catchup_period,
     before |-> lookbehind]

\* Detection.__init__ and _optional_values: interval and lookbehind are
\* given, mute_period defaults to 0, last_run and last_hit default to "".
DetectionIdle ==
    /\ now = 0
    /\ last_run = EmptyString
    /\ last_hit = EmptyString
    /\ interval = 1
    /\ lookbehind = 0
    /\ mute_period = 0
    /\ detection_last = DetectionStep("none", "None", 0)

DetectionInit ==
    /\ now = 0
    /\ last_run \in {EmptyString, IsoFormat(0)}
    /\ last_hit \in {EmptyString} \cup {IsoFormat(t) : t \in {0, MaxNow \div 2}}
    /\ interval \in 1..MaxInterval
    /\ lookbehind \in 0..MaxLookbehind
    /\ mute_period \in 0..MaxMutePeriod
    /\ detection_last = DetectionStep("none", "None", 0)

\* The clock advances.
ClockTick ==
    /\ now < MaxNow
    /\ now' = now + 1
    /\ detection_last' = DetectionStep("tick", "None", 0)
    /\ UNCHANGED <<last_run, last_hit, interval, lookbehind, mute_period>>
    /\ UNCHANGED notDetectionVars

\* rule.last_run = datetime.utcnow().isoformat()
SetLastRun ==
    /\ last_run' = IsoFormat(now)
    /\ detection_last' = DetectionStep("set_last_run", "None", 0)
    /\ UNCHANGED <<now, last_hit, interval, lookbehind, mute_period>>
    /\ UNCHANGED notDetectionVars

AdjustLookbehindFloor(lb, since, catchup_period) ==
    IF since > Minutes(catchup_period) THEN lb + catchup_period
    ELSE IF since > Minutes(lb) THEN lb + (since \div TicksPerMinute)
    ELSE lb

\* The lookbehind of a rule that fires `since` ticks after its next_run:
\* minutes_since = since / TicksPerMinute.
AdjustLookbehind(lb, since, catchup_period) ==
    IF since > Minutes(catchup_period) THEN lb + catchup_period
    ELSE IF since > Minutes(lb) THEN lb + Ceil(since, TicksPerMinute)
    ELSE lb

\* Detection._should_run(catchup_period)
ShouldRun(catchup_period) ==
    LET raises == \/ last_run = EmptyString
                  \/ (mute_period > 0 /\ last_hit = EmptyString)
        next_run == IsoParse(last_run) + Minutes(interval)
        mute_time == IF mute_period > 0
                     THEN IsoParse(last_hit) + Minutes(mute_period)
                     ELSE now
        fires == now > next_run /\ now >= mute_time
    IN  /\ lookbehind <= MaxLookbehind
        /\ IF raises
           THEN /\ detection_last' = DetectionStep("should_run", "ValueError", catchup_period)
                /\ UNCHANGED lookbehind
           ELSE IF fires
           THEN /\ detection_last' = DetectionStep("should_run", "True", catchup_period)
                /\ lookbehind' = AdjustLookbehind(lookbehind, now - next_run, catchup_period)
           ELSE /\ detection_last' = DetectionStep("should_run", "False", catchup_period)
                /\ UNCHANGED lookbehind
        /\ UNCHANGED <<now, last_run, last_hit, interval, mute_period>>
        /\ UNCHANGED notDetectionVars

DetectionNext ==
    \/ ClockTick
    \/ SetLastRun
    \/ \E catchup_period \in 0..MaxCatchup : ShouldRun(catchup_period)

\* ------------------------------------------------------------------- vault

\* The processes that hold a copy of one Vault object (forked from the
\* process that built it): they share the lock, the file and the secret key,
\* and each has its own self.secrets.
VaultWorkers == {"worker-0", "worker-1"}

NoWorker == "None"

NoUuid == 0

\* Vault.secret_key, the same in every copy.
secret_key == "key"

\* Vault._encrypt(message) under a key: the token opens with that key only.
Encrypt(key, message) == [key |-> key, message |-> message]

\* Vault._decrypt(ciphertext): '' on InvalidToken
Decrypt(key, ciphertext) ==
    IF ciphertext.key = key THEN ciphertext.message ELSE ""

\* yaml.safe_dump(secrets): one entry per key
RECURSIVE SafeDump(_)
SafeDump(secrets) ==
    IF DOMAIN secrets = {} THEN <<>>
    ELSE LET u == CHOOSE k \in DOMAIN secrets : \A j \in DOMAIN secrets : k <= j
             rest == [k \in DOMAIN secrets \ {u} |-> secrets[k]]
         IN  <<[uuid |-> u, secret |-> secrets[u]]>> \o SafeDump(rest)

\* yaml.safe_load(f): the mapping the entries of the file make up, a later
\* entry of a key replacing an earlier one; None (here the empty mapping,
\* which is as falsy) for an empty file.
RECURSIVE SafeLoad(_)
SafeLoad(file) ==
    IF file = <<>> THEN EmptyDict
    ELSE LET e == file[Len(file)]
         IN  (e.uuid :> e.secret) @@ SafeLoad(SubSeq(file, 1, Len(file) - 1))

VaultStep(op, w, uuid) == [op |-> op, worker |-> w, uuid |-> uuid]

\* Vault(..., empty_vault=True) and setup(): an empty file, no secrets; the
\* copies are made when the workers are forked.
VaultIdle ==
    /\ vault_file = <<>>
    /\ vault_lock = NoWorker
    /\ vault_secrets = [w \in VaultWorkers |-> EmptyDict]
    /\ vault_pc = [w \in VaultWorkers |-> "idle"]
    /\ vault_cur = [w \in VaultWorkers |-> NoUuid]
    /\ drawn = 0
    /\ ids = <<>>
    /\ rewritten = FALSE
    /\ popped = {}
    /\ vault_last = VaultStep("none", NoWorker, NoUuid)

\* Vault.get_secret(secret_uuid) on a copy's secrets: the empty set is None,
\* a one-element set holds the dict returned.
GetSecret(secrets, secret_uuid) ==
    IF ~Has(secrets, secret_uuid) THEN {}
    ELSE {[username |-> Decrypt(secret_key, secrets[secret_uuid].username),
           password |-> Decrypt(secret_key, secrets[secret_uuid].password)]}

\* Vault.create_secret(username, password), up to the call of save_secret:
\* uuid4() returns a value it has not returned before.
CreateSecret(w, username, password) ==
    /\ vault_pc[w] = "idle"
    /\ drawn < MaxSecrets
    /\ LET secret_uuid == drawn + 1
       IN  /\ drawn' = secret_uuid
           /\ vault_secrets' = [vault_secrets EXCEPT ![w] =
                    (secret_uuid :> [username |-> Encrypt(secret_key, username),
                                     password |-> Encrypt(secret_key, password)]) @@ @]
           /\ vault_cur' = [vault_cur EXCEPT ![w] = secret_uuid]
    /\ vault_pc' = [vault_pc EXCEPT ![w] = "save_secret"]
    /\ UNCHANGED <<vault_file, vault_lock, ids, rewritten, popped, vault_last>>
    /\ UNCHANGED notVaultVars

\* "with self.lock:" in save_secret, and in the save() of delete_secret
VaultAcquire(w) ==
    /\ vault_pc[w] \in {"save_secret", "save"}
    /\ vault_lock = NoWorker
    /\ vault_lock' = w
    /\ vault_pc' = [vault_pc EXCEPT ![w] =
            IF @ = "save_secret" THEN "appending" ELSE "writing"]
    /\ UNCHANGED <<vault_file, vault_secrets, vault_cur, drawn, ids, rewritten, popped, vault_last>>
    /\ UNCHANGED notVaultVars

SaveSecretTruncates(w) ==
    /\ vault_pc[w] = "appending"
    /\ vault_file' = SafeDump([u \in {vault_cur[w]} |-> vault_secrets[w][u]])
    /\ vault_lock' = NoWorker
    /\ vault_pc' = [vault_pc EXCEPT ![w] = "idle"]
    /\ ids' = Append(ids, [uuid |-> vault_cur[w], worker |-> w,
                           username |-> Decrypt(secret_key, vault_secrets[w][vault_cur[w]].username),
                           password |-> Decrypt(secret_key, vault_secrets[w][vault_cur[w]].password)])
    /\ vault_last' = VaultStep("create_secret", w, vault_cur[w])
    /\ vault_cur' = [vault_cur EXCEPT ![w] = NoUuid]
    /\ UNCHANGED <<vault_secrets, drawn, rewritten, popped>>
    /\ UNCHANGED notVaultVars

\* Vault.save_secret({secret_uuid: ...}) under the lock: the entry is
\* appended to the file (open(..., 'a')), the lock released, and
\* create_secret returns the uuid, which the worker records.
SaveSecret(w) ==
    /\ vault_pc[w] = "appending"
    /\ vault_file' = vault_file
            \o SafeDump([u \in {vault_cur[w]} |-> vault_secrets[w][u]])
    /\ vault_lock' = NoWorker
    /\ vault_pc' = [vault_pc EXCEPT ![w] = "idle"]
    /\ ids' = Append(ids, [uuid |-> vault_cur[w], worker |-> w,
                           username |-> Decrypt(secret_key, vault_secrets[w][vault_cur[w]].username),
                           password |-> Decrypt(secret_key, vault_secrets[w][vault_cur[w]].password)])
    /\ vault_last' = VaultStep("create_secret", w, vault_cur[w])
    /\ vault_cur' = [vault_cur EXCEPT ![w] = NoUuid]
    /\ UNCHANGED <<vault_secrets, drawn, rewritten, popped>>
    /\ UNCHANGED notVaultVars

\* Vault.refresh() takes the lock.
Refresh(w) ==
    /\ vault_pc[w] = "idle"
    /\ vault_lock = NoWorker
    /\ vault_lock' = w
    /\ vault_pc' = [vault_pc EXCEPT ![w] = "loading"]
    /\ UNCHANGED <<vault_file, vault_secrets, vault_cur, drawn, ids, rewritten, popped, vault_last>>
    /\ UNCHANGED notVaultVars

\* Vault.load_vault() under the lock of refresh: "if data: self.secrets =
\* data", then the lock is released and refresh returns.
LoadVault(w) ==
    /\ vault_pc[w] = "loading"
    /\ LET data == SafeLoad(vault_file)
       IN  vault_secrets' = [vault_secrets EXCEPT ![w] =
                IF data # EmptyDict THEN data ELSE @]
    /\ vault_lock' = NoWorker
    /\ vault_pc' = [vault_pc EXCEPT ![w] = "idle"]
    /\ vault_last' = VaultStep("refresh", w, NoUuid)
    /\ UNCHANGED <<vault_file, vault_cur, drawn, ids, rewritten, popped>>
    /\ UNCHANGED notVaultVars

\* Vault.delete_secret(secret_uuid, skip_save): the pop under the lock,
\* which raises KeyError for a uuid the copy does not hold; then save()
\* unless skip_save.
DeleteSecret(w, secret_uuid, skip_save) ==
    /\ vault_pc[w] = "idle"
    /\ vault_lock = NoWorker
    /\ IF ~Has(vault_secrets[w], secret_uuid)
       THEN /\ vault_last' = VaultStep("KeyError", w, NoUuid)
            /\ UNCHANGED <<vault_secrets, vault_pc, vault_cur, popped>>
       ELSE /\ vault_secrets' = [vault_secrets EXCEPT ![w] =
                    [u \in DOMAIN @ \ {secret_uuid} |-> @[u]]]
            /\ popped' = popped \cup {secret_uuid}
            /\ IF skip_save
               THEN /\ vault_last' = VaultStep("delete_secret", w, secret_uuid)
                    /\ UNCHANGED <<vault_pc, vault_cur>>
               ELSE /\ vault_pc' = [vault_pc EXCEPT ![w] = "save"]
                    /\ vault_cur' = [vault_cur EXCEPT ![w] = secret_uuid]
                    /\ UNCHANGED vault_last
    /\ UNCHANGED <<vault_file, vault_lock, drawn, ids, rewritten>>
    /\ UNCHANGED notVaultVars

\* Vault.save(), called on its own, takes the lock.
Save(w) ==
    /\ vault_pc[w] = "idle"
    /\ vault_lock = NoWorker
    /\ vault_lock' = w
    /\ vault_pc' = [vault_pc EXCEPT ![w] = "writing"]
    /\ UNCHANGED <<vault_file, vault_secrets, vault_cur, drawn, ids, rewritten, popped, vault_last>>
    /\ UNCHANGED notVaultVars

\* Vault.save() under the lock: the file is rewritten (open(..., 'w')) with
\* the copy's secrets, nothing being written when there are none; the lock
\* is released and save, or the delete_secret that called it, returns.
SaveWrite(w) ==
    /\ vault_pc[w] = "writing"
    /\ vault_file' = SafeDump(vault_secrets[w])
    /\ rewritten' = TRUE
    /\ vault_lock' = NoWorker
    /\ vault_pc' = [vault_pc EXCEPT ![w] = "idle"]
    /\ vault_last' = IF vault_cur[w] # NoUuid
                     THEN VaultStep("delete_secret", w, vault_cur[w])
                     ELSE VaultStep("save", w, NoUuid)
    /\ vault_cur' = [vault_cur EXCEPT ![w] = NoUuid]
    /\ UNCHANGED <<vault_secrets, drawn, ids, popped>>
    /\ UNCHANGED notVaultVars

VaultNext ==
    \E w \in VaultWorkers :
        \/ CreateSecret(w, w, "test")
        \/ VaultAcquire(w)
        \/ SaveSecret(w)
        \/ Refresh(w)
        \/ LoadVault(w)
        \/ \E secret_uuid \in 1..MaxSecrets, skip_save \in BOOLEAN :
                DeleteSecret(w, secret_uuid, skip_save)
        \/ Save(w)
        \/ SaveWrite(w)

\* -------------------------------------------------------------- Event model

\* Python values by type: None, a str, an int, a dict.
PyNone == [type |-> "NoneType", str |-> "", int |-> 0]

PyStr(s) == [type |-> "str", str |-> s, int |-> 0]

PyInt(n) == [type |-> "int", str |-> "", int |-> n]

PyDict == [type |-> "dict", str |-> "", int |-> 0]

\* bool(value) for these values
Truthy(value) ==
    \/ value.type = "str" /\ value.str # ""
    \/ value.type = "int" /\ value.int # 0

\* str.lower() on the strings drawn
Lower(s) ==
    CASE s = "HIGH" -> "high"
      [] s = "Low" -> "low"
      [] s = "True" -> "true"
      [] s = "FALSE" -> "false"
      [] OTHER -> s

\* The default _severity_map of _severity_from_map
DefaultSeverityMap ==
    (PyStr("low") :> 1) @@ (PyStr("medium") :> 2) @@ (PyStr("high") :> 3)
        @@ (PyStr("critical") :> 4)
        @@ [k \in {PyInt(n) : n \in 1..4} |-> k.int]

\* The severities drawn, as a keyword argument or in a raw record.
Severities ==
    {PyNone, PyDict, PyStr("Low"), PyStr("HIGH"), PyStr("bogus"),
     PyInt(0), PyInt(3), PyInt(MaxSeverity)}

\* An optional argument: the empty set when it is not given.
Optional(S) == {{}} \cup {{x} : x \in S}

\* Event._severity_from_map(severity) with _custom_severity_map = custom;
\* a None or empty custom map is falsy.
SeverityFromMap(custom, severity) ==
    IF severity.type \notin {"str", "int"}
    THEN [raised |-> "TypeError", severity |-> 0]
    ELSE LET key == IF severity.type = "str"
                    THEN PyStr(Lower(severity.str)) ELSE severity
             _severity_map == IF custom # EmptyDict THEN custom
                              ELSE DefaultSeverityMap
         IN  IF key \notin DOMAIN _severity_map
             THEN [raised |-> "None", severity |-> 1]
             ELSE [raised |-> "None", severity |-> _severity_map[key]]

\* Event._extract_field_value(message, field) for a field without dots of a
\* flat record: message[field], or None.
ExtractFieldValue(message, field) == Get(message, field, PyNone)

\* The Event(...) calls drawn: a severity_map (None or {}, both falsy and
\* here the empty dict, or the map of the test), severity and tlp keyword
\* arguments (the pre-formed path), and data with base_fields that may name
\* a severity_field and a tlp (the raw-record path).
EventArgs ==
    [severity_map : {EmptyDict, (PyStr("low") :> 10)},
     severity : Optional(Severities),
     tlp : Optional({0, MaxTlp}),
     data : Optional({EmptyDict} \cup {("severity" :> s) : s \in Severities}),
     severity_field : BOOLEAN,
     base_tlp : Optional({MaxTlp - 1, MaxTlp})]

NoEvent == [raised |-> "none", severity |-> 0, tlp |-> 0]

\* Event.__init__: the defaults, the keyword arguments, then
\* _init_parsing_config and, when data is given, _set_event_base.
NewEvent(args) ==
    LET from_kw == IF args.severity = {} THEN [raised |-> "None", severity |-> 1]
                   ELSE SeverityFromMap(args.severity_map,
                                        CHOOSE s \in args.severity : TRUE)
        tlp_kw == IF args.tlp = {} THEN 0 ELSE CHOOSE t \in args.tlp : TRUE
        message == CHOOSE d \in args.data : TRUE
        from_data == SeverityFromMap(args.severity_map,
                                     ExtractFieldValue(message, "severity"))
    IN  IF from_kw.raised # "None"
        THEN [raised |-> from_kw.raised, severity |-> 0, tlp |-> 0]
        ELSE IF args.data = {}
        THEN [raised |-> "None", severity |-> from_kw.severity, tlp |-> tlp_kw]
        ELSE IF args.severity_field /\ from_data.raised # "None"
        THEN [raised |-> from_data.raised, severity |-> 0, tlp |-> 0]
        ELSE [raised |-> "None",
              severity |-> IF args.severity_field THEN from_data.severity
                           ELSE from_kw.severity,
              tlp |-> IF args.base_tlp = {} THEN tlp_kw
                      ELSE CHOOSE t \in args.base_tlp : TRUE]

\* Raw records: each of the fields host, user and note is missing or holds
\* an empty string, a zero or one of two other strings (note: one string).
RawRecords ==
    {r \in UNION {[D -> {PyStr(""), PyInt(0), PyStr("x"), PyStr("y")}] :
                    D \in SUBSET {"host", "user", "note"}} :
        "note" \in DOMAIN r => r["note"] = PyStr("x")}

\* hashlib.md5(str(signature_values).encode()).hexdigest(): the digest of
\* the reprs of the values, in order, taken as injective
Md5(signature_values) == [md5 |-> signature_values]

\* The loop of _generate_signature: the truthy values of the fields, in the
\* order of signature_fields.
RECURSIVE SignatureValuesOf(_, _)
SignatureValuesOf(message, fields) ==
    IF fields = <<>> THEN <<>>
    ELSE LET field_value == ExtractFieldValue(message, Head(fields))
         IN  (IF Truthy(field_value) THEN <<field_value>> ELSE <<>>)
                \o SignatureValuesOf(message, Tail(fields))

\* Event._generate_signature at the instant utcnow; the title of an Event
\* built from a record without base_fields is None.
GenerateSignature(message, fields, utcnow) ==
    IF fields = <<>>
    THEN Md5(<<PyNone, PyInt(utcnow)>>)
    ELSE Md5(SignatureValuesOf(message, fields))

EventBaseIdle ==
    /\ event_args = [severity_map |-> EmptyDict, severity |-> {}, tlp |-> {},
                     data |-> {}, severity_field |-> FALSE, base_tlp |-> {}]
    /\ event = NoEvent
    /\ records = [fields |-> <<>>, a |-> EmptyDict, b |-> EmptyDict]
    /\ signatures = <<>>

EventDrawn ==
    /\ event_args \in EventArgs
    /\ event = NoEvent
    /\ records = [fields |-> <<>>, a |-> EmptyDict, b |-> EmptyDict]
    /\ signatures = <<>>

RecordsDrawn ==
    /\ event_args = [severity_map |-> EmptyDict, severity |-> {}, tlp |-> {},
                     data |-> {}, severity_field |-> FALSE, base_tlp |-> {}]
    /\ event = NoEvent
    /\ records \in [fields : {<<>>, <<"host">>, <<"host", "user">>},
                   a : RawRecords, b : RawRecords]
    /\ signatures = <<>>

\* Event(**kwargs, data=..., base_fields=..., severity_map=..., source=...)
ConstructEvent ==
    /\ event = NoEvent
    /\ event' = NewEvent(event_args)
    /\ UNCHANGED <<event_args, records, signatures>>
    /\ UNCHANGED notEventBaseVars

\* Event(a, signature_fields=fields, source=...) and then
\* Event(b, signature_fields=fields, source=...)
ConstructPair ==
    /\ signatures = <<>>
    /\ \E t1, t2 \in 0..1 :
        /\ t1 <= t2
        /\ (records.fields # <<>> => t1 = 0 /\ t2 = 0)
        /\ signatures' = <<GenerateSignature(records.a, records.fields, t1),
                           GenerateSignature(records.b, records.fields, t2)>>
    /\ UNCHANGED <<event_args, event, records>>
    /\ UNCHANGED notEventBaseVars

\* ------------------------------------------------------ AgentConfig.set_value

updateable_config_keys ==
    {"roles", "event_cache_key", "event_cache_ttl", "health_check_interval",
     "role_configs", "disable_event_cache_check"}

\* The values drawn, strings as the command line gives them.
ConfigValues == {"true", "True", "false", "FALSE", "", "10", "poller,detector", "{}"}

\* value.split(",")
Split(s) == IF s = "poller,detector" THEN <<"poller", "detector">> ELSE <<s>>

\* int(value): the int, or ValueError
IntOf(s) ==
    IF s = "10" THEN [raised |-> "None", int |-> 10]
    ELSE [raised |-> "ValueError", int |-> 0]

\* json.loads(value): a dict, a bool or an int, or JSONDecodeError
JsonLoads(s) ==
    CASE s = "{}" -> [raised |-> "None", value |-> [type |-> "dict", int |-> 0]]
      [] s = "true" -> [raised |-> "None", value |-> [type |-> "bool", int |-> 1]]
      [] s = "false" -> [raised |-> "None", value |-> [type |-> "bool", int |-> 0]]
      [] s = "10" -> [raised |-> "None", value |-> [type |-> "int", int |-> 10]]
      [] OTHER -> [raised |-> "JSONDecodeError", value |-> [type |-> "dict", int |-> 0]]

SetStep(key, value, result, calls) ==
    [key |-> key, value |-> value, result |-> result, calls |-> calls]

\* AgentConfig after from_policy({}): the defaults.
SetValueIdle ==
    /\ cli_config = [roles |-> <<>>, event_cache_key |-> "signature",
                     event_cache_ttl |-> 30, health_check_interval |-> 30,
                     role_configs |-> [type |-> "dict", int |-> 0],
                     disable_event_cache_check |-> FALSE]
    /\ set_last = SetStep("", "", "none", 0)

\* AgentConfig after from_policy(policy) for the policies drawn.
SetValueInit ==
    /\ cli_config \in [roles : {<<>>, <<"poller">>},
                       event_cache_key : {"signature"},
                       event_cache_ttl : {30},
                       health_check_interval : {30},
                       role_configs : {[type |-> "dict", int |-> 0]},
                       disable_event_cache_check : BOOLEAN]
    /\ set_last = SetStep("", "", "none", 0)

\* AgentConfig.set_value(key, value) with a str value. `value.lower in
\* ['true', 'false']` tests the method itself, which is in no list of
\* strings, so the value stays the str it was.
SetValue(key, value) ==
    LET as_int == IntOf(value)
        loaded == JsonLoads(value)
        done(cfg) == /\ cli_config' = cfg
                     /\ set_last' = SetStep(key, value, "True", set_last.calls + 1)
        raise(e) == /\ UNCHANGED cli_config
                    /\ set_last' = SetStep(key, value, e, set_last.calls + 1)
    IN  /\ set_last.calls < MaxSetCalls
        /\ IF key \notin updateable_config_keys THEN raise("KeyError")
           ELSE IF key = "roles"
           THEN done([cli_config EXCEPT !.roles =
                        IF value # "" THEN Split(value) ELSE <<>>])
           ELSE IF key = "disable_event_cache_check"
           THEN done([cli_config EXCEPT !.disable_event_cache_check = value # ""])
           ELSE IF key \in {"event_cache_ttl", "health_check_interval"}
           THEN IF as_int.raised # "None" THEN raise(as_int.raised)
                ELSE done([cli_config EXCEPT ![key] = as_int.int])
           ELSE IF key = "event_cache_key"
           THEN done([cli_config EXCEPT !.event_cache_key = value])
           ELSE \* role_configs, by the type of the value it holds
                IF cli_config.role_configs.type = "bool"
                THEN done([cli_config EXCEPT !.role_configs =
                            [type |-> "bool", int |-> IF value # "" THEN 1 ELSE 0]])
                ELSE IF cli_config.role_configs.type = "int"
                THEN IF as_int.raised # "None" THEN raise(as_int.raised)
                     ELSE done([cli_config EXCEPT !.role_configs =
                                    [type |-> "int", int |-> as_int.int]])
                ELSE IF loaded.raised # "None" THEN raise(loaded.raised)
                     ELSE done([cli_config EXCEPT !.role_configs = loaded.value])
        /\ UNCHANGED notSetValueVars

SetValueNext ==
    \E key \in updateable_config_keys \cup {"uuid"}, value \in ConfigValues :
        SetValue(key, value)

\* ------------------------------------------------------------- Poller.main

\* What agent_get_inputs returns: None (no response), the Response itself
\* when its status is not 200 (falsy, as Response.__bool__ is Response.ok),
\* or the list of inputs of a 200, here the set of their uuids.
InputAnswers ==
    {[kind |-> "None", uuids |-> {}], [kind |-> "Response", uuids |-> {}]}
        \cup {[kind |-> "list", uuids |-> U] : U \in SUBSET {"in-1", "in-2", "in-3"}}

\* `if inputs:`
InputsTruthy(answer) == answer.kind = "list" /\ answer.uuids # {}

\* A tick of main on record: the answer, how main ended, the uuids whose
\* input was instantiated, the uuids whose input ran, the events handed
\* over, and the number of the tick, which stands for utcnow().
PollStep(answer, result, made, ran, put, tick) ==
    [answer |-> answer, result |-> result, made |-> made, ran |-> ran,
     enqueued |-> put, tick |-> tick]

\* BaseInput.last_run: None after __init__, utcnow() after a run
NeverRun == [run |-> FALSE, at |-> 0]

RanAt(t) == [run |-> TRUE, at |-> t]

\* Poller.__init__
PollerIdle ==
    /\ configured_inputs = EmptyDict
    /\ poller_pc = "running"
    /\ polled = 0
    /\ poll_last = PollStep([kind |-> "None", uuids |-> {}], "none", {}, {}, 0, 0)

\* The inputs fetch_inputs yields, or the exception it raises: the inputs
\* that never ran; when there is none, inputs_sorted[0] of the others, which
\* raises IndexError on an empty list and whose lookup in configured_inputs,
\* a dict keyed by uuid, raises KeyError otherwise.
FetchInputs(configured) ==
    LET unrun_inputs == {u \in DOMAIN configured : ~configured[u].run}
    IN  IF unrun_inputs # {} THEN [raised |-> "None", inputs |-> unrun_inputs]
        ELSE IF DOMAIN configured = {} THEN [raised |-> "IndexError", inputs |-> {}]
        ELSE [raised |-> "KeyError", inputs |-> {}]

\* One turn of the role's loop on Poller.main, with a connection, the
\* console's answer, and per_run events returned by each input that runs.
\* An input of the answer is configured anew, with last_run None, because
\* its plugin name is looked up in a dict keyed by uuid; a configured input
\* missing from the answer is deleted while the dict is iterated, which
\* raises RuntimeError. An exception leaves main and run().
PollerMain(answer, per_run) ==
    /\ poller_pc = "running"
    /\ polled < MaxEvents
    /\ poll_last.tick < MaxTicks
    /\ LET tick == poll_last.tick + 1
           made == IF InputsTruthy(answer) THEN answer.uuids ELSE {}
           loaded == IF InputsTruthy(answer)
                     THEN [u \in DOMAIN configured_inputs \cup answer.uuids |->
                            IF u \in made THEN NeverRun
                            ELSE configured_inputs[u]]
                     ELSE EmptyDict
           removed_one == InputsTruthy(answer)
                            /\ DOMAIN configured_inputs \ answer.uuids # {}
           after_removal ==
                IF removed_one
                THEN LET gone == CHOOSE u \in DOMAIN configured_inputs \ answer.uuids : TRUE
                     IN  [u \in DOMAIN loaded \ {gone} |-> loaded[u]]
                ELSE loaded
           fetched == FetchInputs(after_removal)
           put == Cardinality(fetched.inputs) * per_run
       IN  IF removed_one
           THEN /\ configured_inputs' = after_removal
                /\ poller_pc' = "raised"
                /\ poll_last' = PollStep(answer, "RuntimeError", made, {}, 0, tick)
                /\ UNCHANGED polled
           ELSE IF fetched.raised # "None"
           THEN /\ configured_inputs' = after_removal
                /\ poller_pc' = "raised"
                /\ poll_last' = PollStep(answer, fetched.raised, made, {}, 0, tick)
                /\ UNCHANGED polled
           ELSE /\ configured_inputs' =
                    [u \in DOMAIN after_removal |->
                        IF u \in fetched.inputs THEN RanAt(tick) ELSE after_removal[u]]
                /\ UNCHANGED poller_pc
                /\ polled' = polled + put
                /\ poll_last' = PollStep(answer, "returned", made, fetched.inputs, put, tick)
    /\ UNCHANGED notPollerVars

\* main when get_connection() returns None: nothing is done.
PollerMainNoConnection ==
    /\ poller_pc = "running"
    /\ poll_last' = PollStep([kind |-> "None", uuids |-> {}], "no connection",
                             {}, {}, 0, poll_last.tick)
    /\ UNCHANGED <<configured_inputs, poller_pc, polled>>
    /\ UNCHANGED notPollerVars

\* A Poller between two ticks: some inputs configured, each never run or
\* last run on one of the ticks so far.
PollerDrawn ==
    /\ configured_inputs \in
            UNION {[D -> {NeverRun} \cup {RanAt(t) : t \in 1..MaxTicks}] :
                    D \in SUBSET {"in-1", "in-2", "in-3"}}
    /\ poller_pc = "running"
    /\ polled = 0
    /\ poll_last = PollStep([kind |-> "None", uuids |-> {}], "none", {}, {}, 0, MaxTicks)

\* The loop of main over fetch_inputs(), on the inputs configured: each
\* input yielded runs, hands over per_run events and has its last_run set
\* to utcnow().
RunInputs(per_run) ==
    /\ poller_pc = "running"
    /\ poll_last.result = "none"
    /\ LET tick == poll_last.tick + 1
           fetched == FetchInputs(configured_inputs)
           put == Cardinality(fetched.inputs) * per_run
       IN  IF fetched.raised # "None"
           THEN /\ poller_pc' = "raised"
                /\ poll_last' = PollStep(poll_last.answer, fetched.raised, {}, {}, 0, tick)
                /\ UNCHANGED <<configured_inputs, polled>>
           ELSE /\ configured_inputs' =
                    [u \in DOMAIN configured_inputs |->
                        IF u \in fetched.inputs THEN RanAt(tick) ELSE configured_inputs[u]]
                /\ polled' = polled + put
                /\ poll_last' = PollStep(poll_last.answer, "returned", {}, fetched.inputs, put, tick)
                /\ UNCHANGED poller_pc
    /\ UNCHANGED notPollerVars

PollerNext ==
    \/ \E answer \in InputAnswers, per_run \in 0..MaxPerRun :
            PollerMain(answer, per_run)
    \/ PollerMainNoConnection

\* ------------------------------------------------- the shared role config

\* No role has been initialized.
RoleConfigIdle ==
    /\ agent_role_configs = EmptyDict
    /\ shared_configs = EmptyDict
    /\ role_config = [kind |-> "none", dict |-> EmptyDict]
    /\ config_last = [op |-> "none", options |-> EmptyDict, read |-> EmptyDict]

\* The role_configs a supervisor may hold when it starts the poller, as
\* from_policy or the persisted config left them: no entry for the role,
\* an empty entry, or an entry with options.
RoleConfigDrawn ==
    /\ agent_role_configs \in
            {EmptyDict, [poller_config |-> EmptyDict],
             [poller_config |-> [wait_interval |-> 1]],
             [poller_config |-> [batch_size |-> 1]]}
    /\ shared_configs = EmptyDict
    /\ role_config = [kind |-> "none", dict |-> EmptyDict]
    /\ config_last = [op |-> "none", options |-> EmptyDict, read |-> EmptyDict]

\* The options a policy may carry for the poller.
RoleOptions ==
    UNION {[D -> 1..MaxOption] :
            D \in SUBSET {"wait_interval", "batch_size"} \ {{}}}

\* The dict behind the role's self.config.
RoleReads ==
    IF role_config.kind = "proxy" THEN shared_configs["poller_config"]
    ELSE role_config.dict

\* Agent.initialize_role("poller") and BaseRole.__init__: the role's entry
\* of role_configs, or {'wait_interval': 5}, becomes a shared dict; the
\* role keeps it as its config when it is truthy (set_config) and takes
\* _default_config(), a dict of its own, when it is empty.
InitializeRole ==
    /\ role_config.kind = "none"
    /\ LET managed == InitializedConfigs(shared_configs,
                        [role_configs |-> agent_role_configs], {"poller"})
       IN  /\ shared_configs' = managed
           /\ role_config' =
                IF managed["poller_config"] # EmptyDict
                THEN [kind |-> "proxy", dict |-> EmptyDict]
                ELSE [kind |-> "dict", dict |-> [wait_interval |-> 10]]
    /\ config_last' = [op |-> "initialize_role", options |-> EmptyDict,
                       read |-> EmptyDict]
    /\ UNCHANGED agent_role_configs
    /\ UNCHANGED notRoleConfigVars

\* check_policy on a changed policy that carries options for the poller,
\* which is running: _get_role_configs writes each option into the shared
\* dict; set_value('role_configs', ...) then raises TypeError, which ends
\* the supervisor's loop.
PushRoleConfig(options) ==
    /\ role_config.kind # "none"
    /\ config_last.options = EmptyDict
    /\ shared_configs' =
            GetRoleConfigs([poller_config |-> options],
                           <<[name |-> "poller", role |-> "obj"]>>,
                           shared_configs).managed
    /\ config_last' = [op |-> "check_policy", options |-> options,
                       read |-> EmptyDict]
    /\ UNCHANGED <<agent_role_configs, role_config>>
    /\ UNCHANGED notRoleConfigVars

\* One tick of the role: it reads its config.
RoleReadsConfig ==
    /\ role_config.kind # "none"
    /\ config_last.op # "main"
    /\ config_last' = [op |-> "main", options |-> config_last.options,
                       read |-> RoleReads]
    /\ UNCHANGED <<agent_role_configs, shared_configs, role_config>>
    /\ UNCHANGED notRoleConfigVars

RoleConfigNext ==
    \/ InitializeRole
    \/ \E options \in RoleOptions : PushRoleConfig(options)
    \/ RoleReadsConfig

\* ---------------------------------------------------------- specifications

\* The supervisor process.
Init == AgentInit /\ PolicyIdle /\ EventsIdle /\ StopIdle /\ ManagerIdle /\ RolesIdle /\ GuardIdle /\ RegistryIdle /\ ShareIdle /\ DetectionIdle /\ VaultIdle /\ EventBaseIdle /\ SetValueIdle /\ PollerIdle /\ RoleConfigIdle

Spec == Init /\ [][AgentNext]_vars

\* from_policy applied to a drawn config and policy.
InitPolicy == AgentInit /\ PolicyInit /\ EventsIdle /\ StopIdle /\ ManagerIdle /\ RolesIdle /\ GuardIdle /\ RegistryIdle /\ ShareIdle /\ DetectionIdle /\ VaultIdle /\ EventBaseIdle /\ SetValueIdle /\ PollerIdle /\ RoleConfigIdle

SpecPolicy == InitPolicy /\ [][PolicyNext]_vars

\* Producers and the spooler around the event queue.
InitEvents == AgentInit /\ PolicyIdle /\ EventsInit /\ StopIdle /\ ManagerIdle /\ RolesIdle /\ GuardIdle /\ RegistryIdle /\ ShareIdle /\ DetectionIdle /\ VaultIdle /\ EventBaseIdle /\ SetValueIdle /\ PollerIdle /\ RoleConfigIdle

SpecEvents == InitEvents /\ [][EventsNext]_vars

\* The producers and the spooler are processes of their own, each inside a
\* loop that sleeps and goes on: a step that stays possible is taken.
EventsFairness ==
    /\ WF_vars(SpoolerGet)
    /\ WF_vars(\E outcome \in BulkOutcomes : SpoolerSend(outcome))
    /\ \A p \in Producers :
            /\ WF_vars(LeaveBackPressure(p))
            /\ WF_vars(PutEvent(p))

SpecEventsFair == InitEvents /\ [][EventsNext]_vars /\ EventsFairness

\* The pipeline with a process that stops the spooler.
InitSpoolerStop == AgentInit /\ PolicyIdle /\ EventsInit /\ StopIdle /\ ManagerIdle /\ RolesIdle /\ GuardIdle /\ RegistryIdle /\ ShareIdle /\ DetectionIdle /\ VaultIdle /\ EventBaseIdle /\ SetValueIdle /\ PollerIdle /\ RoleConfigIdle

SpecSpoolerStop == InitSpoolerStop /\ [][SpoolerStopNext]_vars

\* An EventManager constructed with or without a connection.
InitManager == AgentInit /\ PolicyIdle /\ EventsIdle /\ StopIdle /\ ManagerDrawn /\ RolesIdle /\ GuardIdle /\ RegistryIdle /\ ShareIdle /\ DetectionIdle /\ VaultIdle /\ EventBaseIdle /\ SetValueIdle /\ PollerIdle /\ RoleConfigIdle

SpecManager == InitManager /\ [][ManagerNext]_vars

\* Two roles, each with its own disable_run_loop and max_loop_count.  A
\* started role is a process of its own and the base main() returns, so
\* each step of run() that is possible is taken; so is the return of join().
InitRoles == AgentInit /\ PolicyIdle /\ EventsIdle /\ StopIdle /\ ManagerIdle /\ RolesInit /\ GuardIdle /\ RegistryIdle /\ ShareIdle /\ DetectionIdle /\ VaultIdle /\ EventBaseIdle /\ SetValueIdle /\ PollerIdle /\ RoleConfigIdle

RolesFairness ==
    \A r \in Roles :
        /\ WF_vars(RoleLoop(r))
        /\ WF_vars(RoleMain(r))
        /\ WF_vars(RoleSleep(r))
        /\ WF_vars(RoleJoined(r))

SpecRoles == InitRoles /\ [][RolesNext]_vars /\ RolesFairness

\* Class statements below BaseRole.
InitGuard == AgentInit /\ PolicyIdle /\ EventsIdle /\ StopIdle /\ ManagerIdle /\ RolesIdle /\ GuardIdle /\ RegistryIdle /\ ShareIdle /\ DetectionIdle /\ VaultIdle /\ EventBaseIdle /\ SetValueIdle /\ PollerIdle /\ RoleConfigIdle

SpecGuard == InitGuard /\ [][GuardNext]_vars

\* Calls on the module's registry, empty at import.
InitRegistry == AgentInit /\ PolicyIdle /\ EventsIdle /\ StopIdle /\ ManagerIdle /\ RolesIdle /\ GuardIdle /\ RegistryIdle /\ ShareIdle /\ DetectionIdle /\ VaultIdle /\ EventBaseIdle /\ SetValueIdle /\ PollerIdle /\ RoleConfigIdle

SpecRegistry == InitRegistry /\ [][RegistryNext]_vars

\* Roles sharing and unsharing connections in the dict they were given.
InitShare == AgentInit /\ PolicyIdle /\ EventsIdle /\ StopIdle /\ ManagerIdle /\ RolesIdle /\ GuardIdle /\ RegistryIdle /\ ShareInit /\ DetectionIdle /\ VaultIdle /\ EventBaseIdle /\ SetValueIdle /\ PollerIdle /\ RoleConfigIdle

SpecShare == InitShare /\ [][ShareNext]_vars

\* A detection rule whose _should_run is called as the clock advances.
InitDetection == AgentInit /\ PolicyIdle /\ EventsIdle /\ StopIdle /\ ManagerIdle /\ RolesIdle /\ GuardIdle /\ RegistryIdle /\ ShareIdle /\ DetectionInit /\ VaultIdle /\ EventBaseIdle /\ SetValueIdle /\ PollerIdle /\ RoleConfigIdle

SpecDetection == InitDetection /\ [][DetectionNext]_vars

\* Workers creating, refreshing, deleting and saving on one vault file.
InitVault == AgentInit /\ PolicyIdle /\ EventsIdle /\ StopIdle /\ ManagerIdle /\ RolesIdle /\ GuardIdle /\ RegistryIdle /\ ShareIdle /\ DetectionIdle /\ VaultIdle /\ EventBaseIdle /\ SetValueIdle /\ PollerIdle /\ RoleConfigIdle

SpecVault == InitVault /\ [][VaultNext]_vars

\* Event(...) called with drawn arguments.
InitEventBase == AgentInit /\ PolicyIdle /\ EventsIdle /\ StopIdle /\ ManagerIdle /\ RolesIdle /\ GuardIdle /\ RegistryIdle /\ ShareIdle /\ DetectionIdle /\ VaultIdle /\ EventDrawn /\ SetValueIdle /\ PollerIdle /\ RoleConfigIdle

SpecEventBase == InitEventBase /\ [][ConstructEvent]_vars

\* Two Events built from two drawn records with the same signature_fields.
InitSignature == AgentInit /\ PolicyIdle /\ EventsIdle /\ StopIdle /\ ManagerIdle /\ RolesIdle /\ GuardIdle /\ RegistryIdle /\ ShareIdle /\ DetectionIdle /\ VaultIdle /\ RecordsDrawn /\ SetValueIdle /\ PollerIdle /\ RoleConfigIdle

SpecSignature == InitSignature /\ [][ConstructPair]_vars

\* set_value called on an AgentConfig, again and again.
InitSetValue == AgentInit /\ PolicyIdle /\ EventsIdle /\ StopIdle /\ ManagerIdle /\ RolesIdle /\ GuardIdle /\ RegistryIdle /\ ShareIdle /\ DetectionIdle /\ VaultIdle /\ EventBaseIdle /\ SetValueInit /\ PollerIdle /\ RoleConfigIdle

SpecSetValue == InitSetValue /\ [][SetValueNext]_vars

\* The poller's loop calling main with the console's answers.
InitPoller == AgentInit /\ PolicyIdle /\ EventsIdle /\ StopIdle /\ ManagerIdle /\ RolesIdle /\ GuardIdle /\ RegistryIdle /\ ShareIdle /\ DetectionIdle /\ VaultIdle /\ EventBaseIdle /\ SetValueIdle /\ PollerIdle /\ RoleConfigIdle

SpecPoller == InitPoller /\ [][PollerNext]_vars

\* fetch_inputs on a Poller with inputs that have run.
InitFetch == AgentInit /\ PolicyIdle /\ EventsIdle /\ StopIdle /\ ManagerIdle /\ RolesIdle /\ GuardIdle /\ RegistryIdle /\ ShareIdle /\ DetectionIdle /\ VaultIdle /\ EventBaseIdle /\ SetValueIdle /\ PollerDrawn /\ RoleConfigIdle

SpecFetch == InitFetch /\ [][\E per_run \in 0..MaxPerRun : RunInputs(per_run)]_vars

\* A role started with a role config, the supervisor and the role's ticks.
InitRoleConfig == AgentInit /\ PolicyIdle /\ EventsIdle /\ StopIdle /\ ManagerIdle /\ RolesIdle /\ GuardIdle /\ RegistryIdle /\ ShareIdle /\ DetectionIdle /\ VaultIdle /\ EventBaseIdle /\ SetValueIdle /\ PollerIdle /\ RoleConfigDrawn

SpecRoleConfig == InitRoleConfig /\ [][RoleConfigNext]_vars

\* ------------------------------------------------ claims on the supervisor

\* C1: after pair(url, key) has returned True, config.console_info.url is
\* url, config.uuid is the uuid the console answered with, and a connection
\* named "default" is in the connection registry and in the registry shared
\* with the roles.
C1_PairSucceeded ==
    (last.op = "pair" /\ last.result = "True") =>
        /\ Has(config.console_info, "url")
        /\ config.console_info["url"] = last.url
        /\ config.uuid = last.uuid
        /\ "default" \in DOMAIN connections
        /\ "default" \in DOMAIN managed_connections
        /\ connections["default"].url = last.url

C1_Witness ==
    /\ last.op = "pair"
    /\ last.result = "True"
    /\ last.pre_url # ""
    /\ config.uuid = "Y"

\* C2 (as claimed): after a policy reconcile that check_policy applied and
\* completed, the live role workers are exactly the installed roles named in
\* config.roles, the roles of the newest policy.
C2_LiveRolesFollowPolicy ==
    (last.op = "tick" /\ last.applied /\ last.result = "True") =>
        workers = LoadedRoleSet \cap config.roles

\* C3 (as claimed): check_policy applies a fetched policy if and only if its
\* revision or its uuid differs from the stored one.
C3_AppliedIffDiffers ==
    (last.op = "tick" /\ last.fetched) => (last.applied <=> last.differed)

\* C4 (as claimed): a periodic heartbeat that was sent and not answered 200
\* ends in sys.exit(1) with every role stopped; an initial heartbeat that
\* was sent and not answered 200 ends in sys.exit(1) with neither the event
\* pipeline nor a role started.
C4_FailedHeartbeatExits ==
    /\ (last.op = "tick" /\ last.beat = "failed") =>
            (pc = "exited" /\ exit_code = 1 /\ workers = {})
    /\ (last.op = "run" /\ last.beat = "failed") =>
            /\ pc = "exited"
            /\ exit_code = 1
            /\ pipeline = "none"
            /\ workers = {}

\* C5 (as claimed): when the pair requested from the CLI did not succeed,
\* the run loop is not entered and the process ends with exit code 1.
C5_FailedPairNeverRuns ==
    paired.outcome = "failed" =>
        /\ pc # "running"
        /\ pc \in {"exited", "crashed"} => exit_code = 1

\* C6 (as claimed): a pair request issued while console_info names another
\* url fails, and config (console_info, uuid) and the persisted config are
\* afterwards what they were.
C6_OtherUrlRefused ==
    [][(/\ pc = "cli"
        /\ last'.op = "pair"
        /\ Has(config.console_info, "url")
        /\ config.console_info["url"] # last'.url)
       => (/\ last'.result # "True"
           /\ config' = config
           /\ persisted' = persisted)]_agentVars

\* C6 (amended): console_info records one console.  A pair request for the
\* url that console_info already names raises ConsoleAlreadyPaired before a
\* connection is built: config, the persisted config and the registries are
\* unchanged and cli_start exits with 1.  A pair request for another url is
\* not refused: when the console answers 200 it replaces the recorded
\* console and uuid, in config and in the persisted config.
C6_SameUrlRefused ==
    [][(pc = "cli" /\ last'.op = "pair" /\ Has(config.console_info, "url"))
       => IF config.console_info["url"] = last'.url
          THEN /\ last'.result = "ConsoleAlreadyPaired"
               /\ config' = config
               /\ persisted' = persisted
               /\ connections' = connections
               /\ managed_connections' = managed_connections
               /\ wire' = {}
               /\ pc' = "exited"
               /\ exit_code' = 1
          ELSE /\ last'.result # "ConsoleAlreadyPaired"
               /\ last'.result = "True" =>
                    /\ config'.console_info["url"] = last'.url
                    /\ config'.uuid = last'.uuid
                    /\ persisted' = <<config'>>]_agentVars

C6_Witness ==
    /\ last.op = "pair"
    /\ last.pre_url # ""
    /\ last.pre_url = last.url
    /\ last.result = "ConsoleAlreadyPaired"
    /\ pc = "exited"

\* C7: the pair request carries the api_key the connection was built with;
\* once agent_pair has received 200 with token T, the connection's api_key
\* and its Authorization header are T, and every heartbeat and policy
\* request of the process carries T and is addressed to config.uuid.
C7_TokenCarried ==
    /\ \A r \in wire : r.kind = "pair" => r.auth = last.key
    /\ paired.outcome = "ok" =>
        /\ "default" \in DOMAIN connections
        /\ connections["default"].api_key = paired.token
        /\ connections["default"].auth = paired.token
        /\ \A r \in wire : r.kind \in {"heartbeat", "policy"} =>
                (r.auth = paired.token /\ r.agent = config.uuid)

C7_Witness ==
    /\ paired.outcome = "ok"
    /\ last.op = "tick"
    /\ \E r \in wire : r.kind = "heartbeat" /\ r.auth = "T" /\ r.agent = "X"

\* ------------------------------------------------------ claims on from_policy

\* C8 (as claimed): after from_policy(P), policy_uuid and policy_revision are
\* P's, and every field among role_configs, event_cache_key, event_cache_ttl,
\* disable_event_cache_check, health_check_interval, console_info and roles
\* that P does not mention has the value it had before the call.
C8_UnmentionedFieldsKept ==
    policy_applied =>
        /\ Has(policy_in, "uuid") =>
                policy_config.policy_uuid = policy_in["uuid"]
        /\ Has(policy_in, "revision") =>
                policy_config.policy_revision = policy_in["revision"]
        /\ \A f \in {"role_configs", "event_cache_key", "event_cache_ttl",
                     "disable_event_cache_check", "health_check_interval",
                     "console_info", "roles"} :
                ~Has(policy_in, f) => policy_config[f] = policy_before[f]

\* C8 (amended): after from_policy(P), policy_uuid and policy_revision are
\* P's ("" and 0 when P has none); console_info and roles are P's when P
\* mentions them and keep their value otherwise; role_configs,
\* event_cache_key, event_cache_ttl, disable_event_cache_check and
\* health_check_interval are P's when P mentions them and are otherwise set
\* to their defaults {}, "signature", 30, false and 30, whatever they were;
\* the agent uuid is untouched.
C8_KeptOrDefaulted ==
    policy_applied =>
        LET defaults == [role_configs |-> EmptyDict,
                         event_cache_key |-> "signature",
                         event_cache_ttl |-> 30,
                         disable_event_cache_check |-> FALSE,
                         health_check_interval |-> 30]
        IN  /\ policy_config.policy_uuid = Get(policy_in, "uuid", "")
            /\ policy_config.policy_revision = Get(policy_in, "revision", 0)
            /\ \A f \in {"console_info", "roles"} :
                    policy_config[f] = Get(policy_in, f, policy_before[f])
            /\ \A f \in DOMAIN defaults :
                    policy_config[f] = Get(policy_in, f, defaults[f])
            /\ policy_config.uuid = policy_before.uuid

C8_Witness ==
    /\ policy_applied
    /\ Has(policy_in, "uuid")
    /\ Has(policy_in, "revision")
    /\ ~Has(policy_in, "health_check_interval")
    /\ policy_before.health_check_interval = 60
    /\ policy_config.health_check_interval = 30
    /\ ~Has(policy_in, "roles")
    /\ policy_before.roles = {"poller"}
    /\ policy_config.roles = {"poller"}

\* -------------------------------------------------- claims on the pipeline

\* C9: with no spooler draining the queue, a producer that has handed more
\* than max_spooled_events events to prepare_events is inside prepare_events
\* (it has not returned), and every event created is in the queue or still
\* held by its producer.
C9_ProducerBlocked ==
    spooler = "none" =>
        /\ \A p \in Producers :
                submitted[p] > max_spooled_events => producer_pc[p] # "idle"
        /\ 1..next_event =
                Range(event_queue) \cup UNION {Range(held[p]) : p \in Producers}

\* C10: the queue never holds more than max_spooled_events events.
C10_QueueBounded == Len(event_queue) <= max_spooled_events

\* C11: a prepare_events call that found the queue above max_spooled_events
\* has slept for back_pressure >= 2 seconds, and, as long as the spooler
\* runs, it returns with all of its events on the queue and back_pressure
\* reset to 1.
C11_StalledCallReturns ==
    /\ [](\A p \in Producers :
            (producer_pc[p] = "check" /\ stalled[p]) => back_pressure[p] >= 2)
    /\ \A p \in Producers :
            (producer_pc[p] = "check" /\ stalled[p])
                ~> \/ /\ producer_pc[p] = "idle"
                      /\ stalled[p]
                      /\ held[p] = <<>>
                      /\ back_pressure[p] = 1
                   \/ spooler # "running"

C11_Witness ==
    \E p \in Producers :
        /\ spooler = "running"
        /\ producer_pc[p] = "idle"
        /\ stalled[p]
        /\ held[p] = <<>>
        /\ back_pressure[p] = 1

\* C12: the events of one producer are passed to bulk_events in the order
\* in which that producer put them on the queue, whatever the other
\* producers put in between and however the spooler cuts its batches.
C12_PerProducerFifo ==
    \A p \in Producers :
        IsPrefix(Restrict(passed, Range(enqueued[p])), enqueued[p])

\* Two batches have been passed, in which the events of two producers
\* alternate.
C12_Witness ==
    /\ Len(passed) > bulk_size
    /\ \E p, q \in Producers : \E i, j, k \in 1..Len(passed) :
            /\ p # q
            /\ i < j /\ j < k
            /\ passed[i] \in Range(enqueued[p])
            /\ passed[j] \in Range(enqueued[q])
            /\ passed[k] \in Range(enqueued[p])

C14_FailureNotFatal ==
    /\ [](\A i, j \in 1..Len(passed) : passed[i] = passed[j] => i = j)
    /\ [][(spooler = "running" /\ passed' # passed)
                => spooler' = "running"]_vars

\* C15: as long as the spooler runs, every event put on the queue is in the
\* end passed to bulk_events, and the queue ends up empty for good once the
\* producers have made their last call.  (The events are finitely many, so
\* "each is passed in the end" is "in the end all are passed".)
C15_QueueDrained ==
    <>[](\/ spooler # "running"
         \/ /\ event_queue = <<>>
            /\ \A p \in Producers : Range(enqueued[p]) \subseteq Range(passed))

\* A running spooler has passed every event created, in several batches.
C15_Witness ==
    /\ spooler = "running"
    /\ event_queue = <<>>
    /\ batch = <<>>
    /\ Len(passed) > bulk_size
    /\ Range(passed) = 1..next_event

\* C37: a pair attempt that was sent and did not succeed leaves the agent
\* as it was: config.uuid and console_info are unchanged and the connection
\* registry holds no new connection.
C37_FailedPairLeavesNoTrace ==
    [][(last'.op = "pair" /\ wire' # {} /\ last'.result # "True") =>
        /\ config'.uuid = config.uuid
        /\ config'.console_info = config.console_info
        /\ connections' = connections
        /\ managed_connections' = managed_connections]_vars

\* C38: stop_roles never fails, whatever an earlier reconcile has stopped:
\* no reconcile, heartbeat failure or interrupt ends in an exception of
\* stop_roles, and while the supervisor is in its loop every entry of
\* running_roles holds a role object.
C38_StopRolesSucceeds ==
    /\ last.op \in {"tick", "interrupt"} => last.result # "AttributeError"
    /\ pc = "running" =>
            \A i \in DOMAIN running_roles : running_roles[i].role = "obj"

\* C39: once the supervisor has left its run loop through sys.exit, after a
\* failed heartbeat or an interrupt, no role worker is alive and the event
\* spooler it started has been stopped.
C39_NothingRunsAfterExit ==
    (pc = "exited" /\ last.op \in {"tick", "interrupt"}) =>
        /\ workers = {}
        /\ pipeline = "none"

\* --------------------------------------- claims on the persistent config

\* C36: a supervisor started on a saved persistent config holds a config
\* equal to the saved one in every persisted field.
C36_PersistentRoundTrip ==
    [][(last'.op = "restart" /\ persisted # <<>>) =>
        \A f \in {"uuid", "roles", "role_configs", "console_info",
                   "policy_uuid", "policy_revision", "event_cache_key",
                   "event_cache_ttl", "disable_event_cache_check",
                   "health_check_interval"} :
            config'[f] = persisted[1][f]]_vars

\* ------------------------------------------- claims on the EventManager

\* C16: prepare_events on a manager that is not initialized raises and puts
\* nothing on the queue; initialize with a connection on such a manager
\* marks it initialized and starts exactly one spooler; initialize on an
\* initialized manager raises, starts no spooler and leaves management_conn
\* as it was; and an initialized manager always has a started spooler.
C16_ManagerLifecycle ==
    /\ [][(~initialized /\ manager_last'.op = "prepare_events")
            => /\ manager_last'.result = "EventManagedInitializedError"
               /\ manager_queue' = manager_queue]_vars
    /\ [][(~initialized /\ manager_last'.op = "initialize"
                /\ ConnTruthy(manager_last'.arg))
            => /\ manager_last'.result = "ok"
               /\ initialized'
               /\ manager_spoolers' = manager_spoolers + 1]_vars
    /\ [][(initialized /\ manager_last'.op = "initialize")
            => /\ manager_last'.result = "EventManagedInitializedError"
               /\ manager_spoolers' = manager_spoolers
               /\ management_conn' = management_conn]_vars
    /\ [](initialized => manager_spoolers >= 1)

\* C34: every item on the event queue is an Event: prepare_events puts an
\* Event as it is and converts a raw record to an Event first.
C34_QueueHoldsEvents ==
    \A i \in DOMAIN manager_queue : manager_queue[i].type = "Event"

\* ------------------------------------------------------- claims on roles

\* C17: after stop() on a started role its process begins at most one more
\* main() call (the one of a turn already past the loop head), leaves the
\* loop at the next loop head and ends; stop(from_self=False) has returned
\* only when the process has ended, and it does return; and a looping role
\* without max_loop_count ends only when stop() was called on that role.
C17_StopEndsRole ==
    /\ [](\A r \in Roles : mains_after_stop[r] <= 1)
    /\ [][\A r \in Roles :
            (should_stop[r] /\ role_pc[r] = "loop" /\ role_pc'[r] # "loop")
                => role_pc'[r] = "done"]_vars
    /\ [](\A r \in Roles : stop_pc[r] = "returned" => role_pc[r] = "done")
    /\ [](\A r \in Roles :
            (role_pc[r] = "done" /\ ~disable_run_loop[r]
                /\ max_loop_count[r] = 0) => stop_pc[r] # "idle")
    /\ \A r \in Roles :
            (stop_pc[r] # "idle")
                ~> (role_pc[r] = "done" /\ stop_pc[r] # "joining")

\* stop() has returned for one role, which made one more main() call after
\* the stop, while the other role, never stopped, is inside a main() call.
C17_Witness ==
    \E r, q \in Roles :
        /\ r # q
        /\ stop_pc[r] = "returned"
        /\ mains_after_stop[r] = 1
        /\ ~disable_run_loop[q]
        /\ max_loop_count[q] = 0
        /\ stop_pc[q] = "idle"
        /\ mains[q] > 1
        /\ role_pc[q] = "main"

\* C18: run() with disable_run_loop has called main() exactly once when it
\* returns; with max_loop_count = N > 0 and no stop() it has called main()
\* exactly N times and set the stop event, and it does return; with
\* max_loop_count = 0 it returns only with the stop event set.
C18_RunCounts ==
    /\ [](\A r \in Roles :
            (role_pc[r] = "done" /\ disable_run_loop[r]) => mains[r] = 1)
    /\ [](\A r \in Roles :
            (role_pc[r] = "done" /\ ~disable_run_loop[r]
                /\ max_loop_count[r] > 0 /\ stop_pc[r] = "idle")
            => (mains[r] = max_loop_count[r] /\ should_stop[r]))
    /\ [](\A r \in Roles :
            (role_pc[r] = "done" /\ ~disable_run_loop[r]
                /\ max_loop_count[r] = 0) => should_stop[r])
    /\ \A r \in Roles :
            (role_pc[r] # "new"
                /\ (disable_run_loop[r] \/ max_loop_count[r] > 0))
            ~> (role_pc[r] = "done")

\* One role has ended after its single main() call, the other after
\* MaxLoopCount turns, neither of them stopped.
C18_Witness ==
    \E r, q \in Roles :
        /\ role_pc[r] = "done" /\ disable_run_loop[r] /\ mains[r] = 1
        /\ role_pc[q] = "done" /\ ~disable_run_loop[q]
        /\ max_loop_count[q] = MaxLoopCount
        /\ mains[q] = MaxLoopCount
        /\ stop_pc[r] = "idle" /\ stop_pc[q] = "idle"

\* C19: a class statement below BaseRole, at any depth, fails with
\* TypeError exactly when its body defines one of the final methods.
C19_FinalNeverOverridden ==
    guard_last.op = "class" =>
        (guard_last.result = "TypeError"
            <=> guard_last.dict \cap FinalMethods # {})

\* ------------------------------------------------- claims on the registry

C21_DefaultReserved ==
    /\ [][\A i \in DOMAIN dicts :
            /\ Has(dicts'[i], "default") = Has(dicts[i], "default")
            /\ GetConnection(dicts'[i], "default")
                    = GetConnection(dicts[i], "default")]_vars
    /\ [][(share_last'.op = "share" /\ share_last'.name # "default"
                /\ ~Has(dicts[role_dict[share_last'.role]], share_last'.name))
            => GetConnection(dicts'[role_dict[share_last'.role]],
                             share_last'.name) = share_last'.conn]_vars
    /\ [][(share_last'.op = "unshare" /\ share_last'.name # "default")
            => GetConnection(dicts'[role_dict[share_last'.role]],
                             share_last'.name) = NoConn]_vars

\* A role has unshared a connection that was in the dict all roles share,
\* next to the console's "default".
C21_Witness ==
    /\ share_last.op = "unshare"
    /\ share_last.changed
    /\ Has(dicts[role_dict[share_last.role]], "default")
    /\ \A r \in Roles : role_dict[r] = "shared"

\* ------------------------------------------- claims on the detection schedule

\* C22: a call of _should_run at the instant last_run was set to returns
\* false; a call at an instant now >= last_run + interval, on a rule that is
\* past its mute window or has never hit, returns true, the instant
\* now = last_run + interval included.
C22_ScheduleMonotone ==
    [][detection_last'.op = "should_run" =>
        /\ last_run = IsoFormat(now) => detection_last'.result # "True"
        /\ ( /\ last_run # EmptyString
             /\ now >= IsoParse(last_run) + Minutes(interval)
             /\ \/ mute_period = 0
                \/ last_hit = EmptyString
                \/ now >= IsoParse(last_hit) + Minutes(mute_period) )
           => detection_last'.result = "True"]_vars

\* C23: a call of _should_run(catchup_period) that fires minutes_since
\* minutes after last_run + interval sets lookbehind to
\* ceil(lookbehind + catchup_period) when minutes_since > catchup_period,
\* else to ceil(lookbehind + minutes_since) when minutes_since > lookbehind,
\* and leaves it otherwise; a call that does not fire leaves lookbehind.
\* Two days after last_run, interval 5, lookbehind 30 and catchup 1440
\* give 1470.
C23_LookbehindAdjusted ==
    /\ [][detection_last'.op = "should_run" =>
            LET catchup == detection_last'.catchup_period
                since == now - (IsoParse(last_run) + Minutes(interval))
                ceil_since == CHOOSE k \in 0..since :
                                /\ k * TicksPerMinute >= since
                                /\ (k - 1) * TicksPerMinute < since
            IN  IF detection_last'.result = "True"
                THEN IF since > catchup * TicksPerMinute
                     THEN lookbehind' = lookbehind + catchup
                     ELSE IF since > lookbehind * TicksPerMinute
                     THEN lookbehind' = lookbehind + ceil_since
                     ELSE lookbehind' = lookbehind
                ELSE lookbehind' = lookbehind]_vars
    /\ [](AdjustLookbehind(30, Minutes(2 * 1440 - 5), 1440) = 1470)

\* A call fired a fraction of a minute past a whole number of minutes after
\* next_run, within the catchup period, and lengthened lookbehind.
C23_Witness ==
    /\ detection_last.op = "should_run" /\ detection_last.result = "True"
    /\ (now - (IsoParse(last_run) + Minutes(interval))) % TicksPerMinute # 0
    /\ now - (IsoParse(last_run) + Minutes(interval)) < Minutes(detection_last.catchup_period)
    /\ now - (IsoParse(last_run) + Minutes(interval)) > TicksPerMinute
    /\ lookbehind > detection_last.before

\* C24: a rule with mute_period > 0 and a recorded last_hit does not fire
\* while now < last_hit + mute_period minutes; a rule with mute_period > 0
\* and no last_hit is evaluated on its interval alone.
C24_MuteWindow ==
    [][(detection_last'.op = "should_run" /\ mute_period > 0 /\ last_run # EmptyString) =>
        IF last_hit # EmptyString
        THEN now < IsoParse(last_hit) + Minutes(mute_period)
                => detection_last'.result # "True"
        ELSE detection_last'.result =
                IF now > IsoParse(last_run) + Minutes(interval)
                THEN "True" ELSE "False"]_vars

\* ------------------------------------------------------ claims on the vault

\* C25: the uuids returned by the workers' create_secret calls are pairwise
\* distinct; while no save() has rewritten the file, a refresh() makes
\* get_secret return, for every create_secret that has returned, the
\* username and password its worker gave; a delete_secret(uuid) that returns
\* leaves get_secret(uuid) with None.
C25_ConcurrentCreate ==
    /\ [](\A i, j \in DOMAIN ids : ids[i].uuid = ids[j].uuid => i = j)
    /\ [][\A w \in VaultWorkers :
            (vault_pc[w] = "loading" /\ vault_pc'[w] = "idle" /\ ~rewritten) =>
                \A i \in DOMAIN ids :
                    GetSecret(vault_secrets'[w], ids[i].uuid) =
                        {[username |-> ids[i].username, password |-> ids[i].password]}]_vars
    /\ [][\A w \in VaultWorkers :
            (vault_last'.op = "delete_secret" /\ vault_last'.worker = w
                /\ (vault_pc[w] = "writing" \/ vault_secrets'[w] # vault_secrets[w])) =>
                GetSecret(vault_secrets'[w], vault_last'.uuid) = {}]_vars

\* Two workers created a secret each, and one of them, having refreshed,
\* read and then deleted the other's.
C25_Witness ==
    /\ vault_last.op = "delete_secret"
    /\ \E i, j \in DOMAIN ids :
        /\ ids[i].worker # ids[j].worker
        /\ ids[i].uuid = vault_last.uuid
        /\ ids[i].worker # vault_last.worker
        /\ GetSecret(vault_secrets[vault_last.worker], ids[j].uuid) =
                {[username |-> ids[j].username, password |-> ids[j].password]}

\* C26: when refresh() returns, the worker's secrets are exactly the secrets
\* stored in the vault file, an empty file included.
C26_RefreshSnapshot ==
    [][\A w \in VaultWorkers :
        (vault_pc[w] = "loading" /\ vault_pc'[w] = "idle") =>
            vault_secrets'[w] = SafeLoad(vault_file')]_vars

\* C40: no step takes out of the vault file a secret that no worker has
\* deleted: whatever a save() or a delete_secret of another secret writes,
\* every stored secret that no delete_secret has popped is stored after it.
C40_NoLostUpdate ==
    [][\A u \in DOMAIN SafeLoad(vault_file) \ popped' :
            u \in DOMAIN SafeLoad(vault_file')]_vars

\* ------------------------------------------------- claims on the Event model

\* C27: every Event built, from keyword arguments or from a raw record, with
\* or without a custom severity map, has severity in 1..4 and tlp in 0..4;
\* a severity that is missing, unknown or out of range gives severity 1.
C27_SeverityAndTlpRange ==
    event # NoEvent =>
        LET from_record == event_args.data # {} /\ event_args.severity_field
            given == IF from_record
                     THEN {ExtractFieldValue(CHOOSE d \in event_args.data : TRUE, "severity")}
                     ELSE event_args.severity
            lowered == {IF s.type = "str" THEN PyStr(Lower(s.str)) ELSE s : s \in given}
            kw_ok == \A s \in event_args.severity : s.type \in {"str", "int"}
        IN  /\ event.raised = "None" =>
                    event.severity \in 1..4 /\ event.tlp \in 0..4
            /\ (kw_ok /\ \A s \in lowered :
                            s = PyNone \/ (s.type \in {"str", "int"}
                                           /\ s \notin DOMAIN DefaultSeverityMap))
                  => (event.raised = "None" /\ event.severity = 1)

\* C28: with a non-empty signature_fields list, two Events built from
\* records that agree on every listed field have the same signature, and
\* two records that differ on a listed field (in its value or in having
\* it) have different signatures.
C28_SignatureSeparates ==
    (signatures # <<>> /\ records.fields # <<>>) =>
        LET listed == Range(records.fields)
            agree == \A f \in listed :
                        /\ Has(records.a, f) = Has(records.b, f)
                        /\ Has(records.a, f) => records.a[f] = records.b[f]
        IN  agree <=> signatures[1] = signatures[2]

\* ----------------------------------------------------- claims on set_value

\* C29: set_value('disable_event_cache_check', value) with value "true" or
\* "false" in any letter case stores the bool the string spells, returns
\* True and changes no other field of the config.
C29_BoolCoerced ==
    [][(set_last'.key = "disable_event_cache_check"
            /\ Lower(set_last'.value) \in {"true", "false"}) =>
        /\ set_last'.result = "True"
        /\ cli_config'.disable_event_cache_check = (Lower(set_last'.value) = "true")
        /\ \A f \in DOMAIN cli_config \ {"disable_event_cache_check"} :
                cli_config'[f] = cli_config[f]]_vars

\* -------------------------------------------------------- claims on the poller

\* C30: a tick in which the console returns no inputs (None or an empty
\* list) leaves configured_inputs empty, runs no input, enqueues no event
\* and returns, so that the role is still running.
C30_NoInputsTick ==
    [][(poller_pc = "running" /\ poll_last'.result \notin {"none", "no connection"}
            /\ ~InputsTruthy(poll_last'.answer)) =>
        /\ configured_inputs' = EmptyDict
        /\ poll_last'.ran = {}
        /\ poll_last'.enqueued = 0
        /\ polled' = polled
        /\ poll_last'.result = "returned"
        /\ poller_pc' = "running"]_vars

C35_RoleReadsPushedOptions ==
    /\ [][(config_last.op = "check_policy" /\ config_last'.op = "main") =>
            \A k \in DOMAIN config_last.options :
                /\ Has(config_last'.read, k)
                /\ config_last'.read[k] = config_last.options[k]]_vars
    /\ [](config_last.op = "main" => Has(config_last.read, "wait_interval"))

====
